---- MODULE Spec2Model ----
(***************************************************************************)
(* Model of the authentication / session core of attentive-intranet-api:   *)
(* app/core/auth.py (password verification, create_token, decode_token),   *)
(* app/core/security.py (get_current_user_id) and app/routers/auth.py      *)
(* (login, refresh, me, logout), plus the optional-user dependency of      *)
(* app/routers/comunicados.py.                                             *)
(*                                                                         *)
(* Time is the UTC clock in whole seconds.  A JWT is a header (alg), a     *)
(* claims set and a signature; the HMAC signature is modelled by the       *)
(* triple (key, alg, claims) it authenticates, so that a token verifies    *)
(* exactly when it was signed with the configured key over the claims it   *)
(* carries.                                                                *)
(***************************************************************************)
EXTENDS Integers, Sequences, FiniteSets, TLC

VARIABLES
    now,        \* the UTC clock, whole seconds
    settings,   \* app.core.config.settings (loaded once at start-up)
    usuarios,   \* db["usuarios"]: _id -> document
    session,    \* what the last successful login issued (ghost)
    refreshed,  \* what the last successful refresh minted (ghost)
    cookie,     \* the browser's major_token cookie
    resp,       \* the response in flight to the client, Idle when none is
    call,       \* the last direct call of a function and its outcome
    comunicados,\* db["comunicados"]: the documents inserted
    written,    \* _id -> the password last written for that user (ghost)
    departamentos, \* db["departamentos"]: _id -> document
    bulk,       \* the POST /departamentos/bulk request being handled
    dreq,       \* client -> its POST / PUT / DELETE /departamentos request
    cred_key,   \* settings.CRED_KEY, the key of app.core.crypto.fernet
    empresas,   \* db["empresas"]: _id -> document
    ewritten,   \* _id -> the passwords last sent for that company (ghost)
    eresp,      \* the last answer of the companies router
    escrituracao, \* the "escrituracao" collection: _id -> document
    esresult,   \* the last call of escrituracao_service.create_bulk
    treq,       \* client -> its POST /usuarios/{id}/cursos/{curso_id}/toggle
    thist       \* the last two toggles that were written (ghost)

vars == <<now, settings, usuarios, session, refreshed, cookie, resp, call,
          comunicados, written, departamentos, bulk, dreq,
          cred_key, empresas, ewritten, eresp, escrituracao, esresult,
          treq, thist>>

\* the state of the companies router
companies == <<cred_key, empresas, ewritten, eresp>>
\* the state of the escrituracao service
bookkeeping == <<escrituracao, esresult>>
\* the course toggles in flight and their history
courses == <<treq, thist>>
\* the state of the other routers
others == <<dreq, companies, bookkeeping, courses>>

\* what the handlers of the auth router leave alone
offAuth == <<call, comunicados, written, departamentos, bulk, others>>
\* what the direct calls leave alone besides the auth state
offCalls == <<comunicados, written, departamentos, bulk, others>>
\* what the handlers of the users router leave alone besides the auth state
offUsers == <<call, departamentos, bulk, others>>

----------------------------------------------------------------------------
(* Bounds of the model *)

\* clock instants explored after each base instant
MaxOffset == 2
\* seconds the clock may advance while one handler runs
MaxSkew == 1

\* between the two clock readings of one create_token call the second may
\* change
Skews == {0, 1}

----------------------------------------------------------------------------
(* Configuration: app/core/config.py *)

ACCESS_TOKEN_EXPIRE_MINUTES == 60
MAJOR_TOKEN_EXPIRE_HOURS == 7

DefaultSettings ==
    [ SECRET_KEY |-> "change-me",
      ALGORITHM |-> "HS256",
      ACCESS_TOKEN_EXPIRE_MINUTES |-> ACCESS_TOKEN_EXPIRE_MINUTES,
      MAJOR_TOKEN_EXPIRE_HOURS |-> MAJOR_TOKEN_EXPIRE_HOURS ]

AccessTTL(cfg) == cfg.ACCESS_TOKEN_EXPIRE_MINUTES * 60
MajorTTL(cfg) == cfg.MAJOR_TOKEN_EXPIRE_HOURS * 60 * 60

\* COOKIE_MAX_AGE of routers/auth.py
COOKIE_MAX_AGE(cfg) == cfg.MAJOR_TOKEN_EXPIRE_HOURS * 60 * 60

----------------------------------------------------------------------------
(* Passwords: pwd_context and verify_password of app/core/auth.py *)

\* A stored digest is identified by its scheme tag; a bcrypt_sha256 or bcrypt
\* digest verifies exactly the password it was computed from.
Digest(scheme, pw) == [scheme |-> scheme, pw |-> pw]
EmptyDigest == Digest("", "")
\* a senha_hash stored as null
NoneDigest == Digest("<None>", "")
MalformedDigest == Digest("unknown", "")

\* schemes of pwd_context
PwdSchemes == {"bcrypt_sha256", "bcrypt"}

\* passwords longer than the 72 bytes bcrypt reads: two that agree on their
\* first 72 bytes and differ after them
LongSenhas == {"long72+a", "long72+b"}

\* bcrypt hashes the first 72 bytes of the password and ignores the rest
first72(pw) == IF pw \in LongSenhas THEN "long72" ELSE pw

\* app.utils.security.hash_password: plain bcrypt
hash_password(password) == Digest("bcrypt", first72(password))

\* app.core.auth.get_password_hash: bcrypt over the SHA-256 of the password
get_password_hash(password) == Digest("bcrypt_sha256", password)

\* CryptContext.verify: identifies the scheme of the digest and raises
\* UnknownHashError when none of the context's schemes recognises it; the
\* bcrypt handler truncates the candidate as bcrypt does.
pwd_context_verify(plain, hashed) ==
    IF hashed.scheme = "bcrypt_sha256"
    THEN (IF hashed.pw = plain THEN "true" ELSE "false")
    ELSE IF hashed.scheme = "bcrypt"
    THEN (IF hashed.pw = first72(plain) THEN "true" ELSE "false")
    ELSE "raise"

verify_password(plain_password, hashed_password) ==
    IF hashed_password \in {EmptyDigest, NoneDigest}
    THEN "false"
    ELSE pwd_context_verify(plain_password, hashed_password)

----------------------------------------------------------------------------
(* Tokens: create_token / decode_token of app/core/auth.py *)

\* payload.get(k) of a key the payload does not carry
Absent == "<absent>"

Claims(sub, type, exp, iat) == [sub |-> sub, type |-> type, exp |-> exp, iat |-> iat]
NoClaims == Claims(Absent, Absent, 0, 0)

Sign(key, alg, claims) == [key |-> key, alg |-> alg, claims |-> claims]

NoToken == [form |-> "absent", alg |-> "", claims |-> NoClaims,
            sig |-> Sign("", "", NoClaims)]
Garbage == [form |-> "garbage", alg |-> "", claims |-> NoClaims,
            sig |-> Sign("", "", NoClaims)]

jwt_encode(claims, key, alg) ==
    [form |-> "jwt", alg |-> alg, claims |-> claims, sig |-> Sign(key, alg, claims)]

Failed == [ok |-> FALSE, payload |-> NoClaims]

\* jwt.decode that does not verify the signature
jwt_decode_unverified(token, key, algorithms, t) ==
    IF token.form # "jwt" THEN Failed
    ELSE IF token.alg \notin algorithms THEN Failed
    ELSE IF token.claims.exp < t THEN Failed
    ELSE [ok |-> TRUE, payload |-> token.claims]

\* python-jose jwt.decode: the token must parse, its header algorithm must be
\* one of `algorithms`, the signature must verify under `key`, and the exp
\* claim is refused when exp < now (ExpiredSignatureError).
jwt_decode(token, key, algorithms, t) ==
    IF token.form # "jwt" THEN Failed
    ELSE IF token.alg \notin algorithms THEN Failed
    ELSE IF token.sig # Sign(key, token.alg, token.claims) THEN Failed
    ELSE IF token.claims.exp < t THEN Failed
    ELSE [ok |-> TRUE, payload |-> token.claims]

\* _exp(minutes=...) / _exp(hours=...): one clock reading t, truncated
_exp_minutes(t, minutes) == t + minutes * 60
_exp_hours(t, hours) == t + hours * 60 * 60

\* create_token with the type claim hard-wired to 'access'
create_token_one_kind(sub, token_type, t1, t2, cfg) ==
    IF sub = "" \/ token_type \notin {"access", "major"}
    THEN [ok |-> FALSE, token |-> NoToken]
    ELSE [ok |-> TRUE,
          token |-> jwt_encode(
              Claims(sub, "access",
                     IF token_type = "access"
                     THEN _exp_minutes(t1, cfg.ACCESS_TOKEN_EXPIRE_MINUTES)
                     ELSE _exp_hours(t1, cfg.MAJOR_TOKEN_EXPIRE_HOURS), t2),
              cfg.SECRET_KEY, cfg.ALGORITHM)]

\* create_token that stamps no issue time
create_token_no_iat(sub, token_type, t1, t2, cfg) ==
    IF sub = "" \/ token_type \notin {"access", "major"}
    THEN [ok |-> FALSE, token |-> NoToken]
    ELSE [ok |-> TRUE,
          token |-> jwt_encode(
              Claims(sub, token_type,
                     IF token_type = "access"
                     THEN _exp_minutes(t1, cfg.ACCESS_TOKEN_EXPIRE_MINUTES)
                     ELSE _exp_hours(t1, cfg.MAJOR_TOKEN_EXPIRE_HOURS), 0),
              cfg.SECRET_KEY, cfg.ALGORITHM)]

\* create_token that falls back to the default expiry for an unknown type
create_token_any_type(sub, token_type, t1, t2, cfg) ==
    IF sub = "" THEN [ok |-> FALSE, token |-> NoToken]
    ELSE [ok |-> TRUE,
          token |-> jwt_encode(
              Claims(sub, token_type,
                     IF token_type = "major"
                     THEN _exp_hours(t1, cfg.MAJOR_TOKEN_EXPIRE_HOURS)
                     ELSE _exp_minutes(t1, cfg.ACCESS_TOKEN_EXPIRE_MINUTES), t2),
              cfg.SECRET_KEY, cfg.ALGORITHM)]

\* create_token: the clock is read at t1 for exp and again at t2 for iat
create_token(sub, token_type, t1, t2, cfg) ==
    IF sub = "" THEN [ok |-> FALSE, token |-> NoToken]
    ELSE IF token_type = "access"
    THEN [ok |-> TRUE,
          token |-> jwt_encode(
              Claims(sub, token_type,
                     _exp_minutes(t1, cfg.ACCESS_TOKEN_EXPIRE_MINUTES), t2),
              cfg.SECRET_KEY, cfg.ALGORITHM)]
    ELSE IF token_type = "major"
    THEN [ok |-> TRUE,
          token |-> jwt_encode(
              Claims(sub, token_type,
                     _exp_hours(t1, cfg.MAJOR_TOKEN_EXPIRE_HOURS), t2),
              cfg.SECRET_KEY, cfg.ALGORITHM)]
    ELSE [ok |-> FALSE, token |-> NoToken]

decode_token(token, t, cfg) ==
    jwt_decode(token, cfg.SECRET_KEY, {cfg.ALGORITHM}, t)

\* Python truthiness of payload.get("sub")
Falsy(v) == v = "" \/ v = Absent

\* Python's None as a dict value, and str() of a dict value
PyNone == "<None>"
str(v) == IF v = PyNone THEN "None" ELSE v

\* Python truthiness of an optional string
PyFalsy(v) == v = "" \/ v = PyNone

----------------------------------------------------------------------------
(* The user collection and ObjectId *)

\* strings that bson.ObjectId accepts (24 hex digits); GhostId is well formed
\* but names no stored user
GhostId == "u9"
NotAnOid == "not-an-oid"
NewIds == {"u6"}
ValidObjectIds == {"u1", "u2", "u3", "u4", "u5", GhostId} \cup NewIds

NoDoc == [none |-> TRUE]

SeedUsuarios ==
    [id \in {"u1", "u2", "u3", "u4", "u5"} |->
        CASE id = "u1" -> [_id |-> "u1", nome |-> "Ana", sobrenome |-> "A",
                           email |-> "a@x", departamento |-> "fiscal",
                           criado_em |-> 0, atualizado_em |-> 0,
                           senha_hash |-> Digest("bcrypt_sha256", "p1")]
          [] id = "u2" -> [_id |-> "u2", nome |-> "Bia", sobrenome |-> "B",
                           email |-> "b@x",
                           senha |-> "p2",
                           senha_hash |-> Digest("bcrypt", "p2")]
          [] id = "u3" -> [_id |-> "u3", nome |-> "Caio", sobrenome |-> "C",
                           email |-> "c@x",
                           senha_hash |-> MalformedDigest]
          [] id = "u4" -> [_id |-> "u4", nome |-> "Davi", sobrenome |-> "D",
                           email |-> "d@x",
                           senha_hash |-> EmptyDigest]
          [] OTHER     -> [_id |-> "u5", nome |-> "Eva", sobrenome |-> "E",
                           email |-> "e@x"] ]

\* the passwords the seed digests were computed from
SeedWritten == [id \in {"u1", "u2"} |-> IF id = "u1" THEN "p1" ELSE "p2"]

Emails == {"a@x", "b@x", "c@x", "d@x", "e@x", "nobody@x"}
Senhas == {"p1", "p2"}

\* db["usuarios"].find_one({"email": email})
find_one_by_email(db, email) ==
    IF \E id \in DOMAIN db : db[id].email = email
    THEN db[CHOOSE id \in DOMAIN db : db[id].email = email]
    ELSE NoDoc

\* db["usuarios"].find_one({"_id": oid})
find_one_by_id(db, oid) == IF oid \in DOMAIN db THEN db[oid] ELSE NoDoc

\* user.get("senha_hash", "")
get_senha_hash(user) ==
    IF "senha_hash" \in DOMAIN user THEN user.senha_hash ELSE EmptyDigest

\* _build_safe_user that also withholds the department
_build_safe_user_private(user) ==
    [k \in DOMAIN user \ {"senha", "senha_hash", "departamento"} |-> user[k]]

_build_safe_user(user) ==
    [k \in DOMAIN user \ {"senha", "senha_hash"} |-> user[k]]

\* schemas/usuario.py: the fields of UsuarioRead besides id (alias _id)
UsuarioReadFields ==
    {"nome", "sobrenome", "email", "departamento", "avatar_url",
     "descricao_html", "bio_publica", "pontos", "feedbacks",
     "cursos_progresso", "ativo", "roles"}

\* UsuarioRead(**doc) raises ValidationError unless the required fields are
\* given
UsuarioReadValid(doc) == {"nome", "sobrenome", "email"} \subseteq DOMAIN doc

\* UsuarioRead(**doc): _id comes out as id, keys that are no field of the
\* schema are ignored, pontos and ativo take their defaults when not given
\* (the other optional fields are left out when not given)
UsuarioRead(doc) ==
    [k \in {"id", "pontos", "ativo"} \cup (DOMAIN doc \cap UsuarioReadFields) |->
        IF k = "id" THEN doc._id
        ELSE IF k \in DOMAIN doc THEN doc[k]
        ELSE IF k = "pontos" THEN 0
        ELSE TRUE]

----------------------------------------------------------------------------
(* Responses *)

Response(op, at, status, detail) ==
    [ op |-> op, at |-> at, status |-> status, detail |-> detail,
      www |-> "", email |-> "", senha |-> "", req |-> NoToken,
      access_token |-> NoToken, set_cookie |-> NoToken,
      delete_cookie |-> FALSE, sub |-> "", usuario |-> NoDoc,
      printed |-> "" ]

Idle == Response("idle", 0, 0, "")

\* outcome of a call: the exception raised ("" when it returned), the value
\* returned when it is a boolean, the token returned when it is one
Outcome(fn, args, raised, returned, token) ==
    [fn |-> fn, args |-> args, raised |-> raised, returned |-> returned,
     token |-> token]
NoCall == Outcome("", <<>>, "", "", NoToken)

\* an exception no handler catches: the framework answers 500
InternalServerError(op, at) == Response(op, at, 500, "Internal Server Error")

----------------------------------------------------------------------------
(* core/security.py *)

Unauthorized401(at) ==
    [Response("get_current_user_id", at, 401, "Token inválido ou expirado")
        EXCEPT !.www = "Bearer"]

\* get_current_user_id without the check of the type claim
get_current_user_id_untyped(token, t, cfg) ==
    LET d == decode_token(token, t, cfg) IN
    IF ~d.ok THEN Unauthorized401(t)
    ELSE IF Falsy(d.payload.sub) THEN Unauthorized401(t)
    ELSE [Response("get_current_user_id", t, 200, "") EXCEPT !.sub = d.payload.sub]

\* get_current_user_id that also requires the subject to be a stored user
get_current_user_id_checking_store(token, t, cfg) ==
    LET d == decode_token(token, t, cfg) IN
    IF ~d.ok THEN Unauthorized401(t)
    ELSE IF d.payload.type # "access" THEN Unauthorized401(t)
    ELSE IF Falsy(d.payload.sub) THEN Unauthorized401(t)
    ELSE IF d.payload.sub \notin DOMAIN usuarios THEN Unauthorized401(t)
    ELSE [Response("get_current_user_id", t, 200, "") EXCEPT !.sub = d.payload.sub]

\* get_current_user_id: decode, require type 'access', require a subject
get_current_user_id(token, t, cfg) ==
    LET d == decode_token(token, t, cfg) IN
    IF ~d.ok THEN Unauthorized401(t)
    ELSE IF d.payload.type # "access" THEN Unauthorized401(t)
    ELSE IF Falsy(d.payload.sub) THEN Unauthorized401(t)
    ELSE [Response("get_current_user_id", t, 200, "") EXCEPT !.sub = d.payload.sub]

\* OAuth2PasswordBearer: a request without a bearer token never reaches the
\* dependency body
oauth2_scheme(token, t, cfg) ==
    IF token = NoToken
    THEN [Response("get_current_user_id", t, 401, "Not authenticated")
             EXCEPT !.www = "Bearer"]
    ELSE get_current_user_id(token, t, cfg)

----------------------------------------------------------------------------
(* routers/auth.py *)

login_fail(at) == Response("login", at, 401, "Credenciais inválidas")

\* login binding the tokens to the e-mail instead of the _id
login_tokens_by_email(user, t1, t2, t3, t4, cfg) ==
    [ access |-> create_token(user.email, "access", t1, t2, cfg).token,
      major |-> create_token(user.email, "major", t3, t4, cfg).token ]

\* login once the credentials are verified: the two tokens for the user's _id,
\* the clock read at t1, t2 for the access token and at t3, t4 for the major
login_tokens(user, t1, t2, t3, t4, cfg) ==
    [ access |-> create_token(user._id, "access", t1, t2, cfg).token,
      major |-> create_token(user._id, "major", t3, t4, cfg).token ]

refresh_fail(at, detail) == Response("refresh", at, 401, detail)

\* refresh up to the user lookup: the response when it fails, Idle when the
\* handler goes on to mint
refresh_check(major, t, db, cfg) ==
    IF major = NoToken THEN refresh_fail(t, "Major token ausente")
    ELSE LET d == decode_token(major, t, cfg) IN
    IF ~d.ok \/ d.payload.type # "major" \/ Falsy(d.payload.sub)
    THEN refresh_fail(t, "Major token inválido ou expirado")
    ELSE IF d.payload.sub \notin ValidObjectIds
    THEN refresh_fail(t, "ID inválido no token")
    ELSE IF find_one_by_id(db, d.payload.sub) = NoDoc
    THEN refresh_fail(t, "Usuário não encontrado")
    ELSE Idle

\* refresh that also re-issues the major token as a cookie
refresh_mint_reissuing(user_id, user, t, t1, t2, cfg) ==
    [Response("refresh", t, 200, "") EXCEPT
        !.access_token = create_token(user_id, "access", t1, t2, cfg).token,
        !.set_cookie = create_token(user_id, "major", t1, t2, cfg).token,
        !.sub = user_id,
        !.usuario = UsuarioRead(_build_safe_user(user))]

\* refresh once the user is found: one new access token for the subject of
\* the major token, the user without its password fields, no cookie
refresh_mint(user_id, user, t, t1, t2, cfg) ==
    IF ~UsuarioReadValid(_build_safe_user(user))
    THEN InternalServerError("refresh", t)
    ELSE [Response("refresh", t, 200, "") EXCEPT
             !.access_token = create_token(user_id, "access", t1, t2, cfg).token,
             !.sub = user_id,
             !.usuario = UsuarioRead(_build_safe_user(user))]

\* GET /auth/me: decodes the bearer token and looks the subject up
me(authorization, t, db, cfg) ==
    IF authorization = NoToken THEN Response("me", t, 401, "Token ausente")
    ELSE LET d == decode_token(authorization, t, cfg) IN
    IF ~d.ok \/ Falsy(d.payload.sub)
    THEN Response("me", t, 401, "Token inválido ou expirado")
    ELSE IF d.payload.sub \notin ValidObjectIds
    THEN Response("me", t, 401, "ID inválido no token")
    ELSE LET user == find_one_by_id(db, d.payload.sub) IN
    IF user = NoDoc THEN Response("me", t, 404, "Usuário não encontrado")
    ELSE [Response("me", t, 200, "") EXCEPT
             !.sub = user._id,
             !.usuario = [id |-> user._id, display_name |-> user.nome]]

----------------------------------------------------------------------------
(* routers/comunicados.py *)

\* get_current_user_optional: the user dict, or None (NoDoc) on any failure
get_current_user_optional(authorization, t, db, cfg) ==
    LET none == Response("get_current_user_optional", t, 200, "") IN
    IF authorization = NoToken THEN none
    ELSE LET d == decode_token(authorization, t, cfg) IN
    IF ~d.ok \/ Falsy(d.payload.sub) THEN none
    ELSE IF d.payload.sub \notin ValidObjectIds THEN none
    ELSE LET user == find_one_by_id(db, d.payload.sub) IN
    IF user = NoDoc THEN none
    ELSE [none EXCEPT !.sub = user._id,
                      !.usuario = [_id |-> user._id, nome |-> user.nome]]

----------------------------------------------------------------------------
(* routers/departamentos.py: the bulk upsert *)

\* items a batch may hold
MaxItems == 3
\* the round limit of the child-resolution loop; the source's limit of
\* 10000 rounds is scaled down with the batch size so that the batches
\* explored can reach it
SafetyCap == 2

\* _norm_slug: None stays None, otherwise strip().lower()
_norm_slug(s) ==
    CASE s = PyNone -> PyNone
      [] s = " " -> ""
      [] s = "B " -> "b"
      [] s = "C" -> "c"
      [] OTHER -> s

\* DepartamentoBulkItem (ordem and ativo at their defaults)
BulkItem(slug, parent_slug) ==
    [nome |-> <<"Depto", slug>>, slug |-> slug, parent_slug |-> parent_slug,
     ordem |-> 0, ativo |-> TRUE]

\* the items of the batches: three slugs under each parent reference, one
\* item without a slug and one whose parent_slug is blank
BulkItems ==
    { BulkItem(slug, parent_slug) :
        slug \in {"a", "b", "C"},
        parent_slug \in {PyNone, "r", "a", "B ", "c"} }
        \cup {BulkItem("", "r"), BulkItem("a", " ")}

Batches == UNION { [1..n -> BulkItems] : n \in 0..MaxItems }

\* parent_id None: no ObjectId (the ObjectIds are 1, 2, ...)
NoParentId == 0

\* a stored root department
RootDoc ==
    [_id |-> 1, nome |-> <<"Depto", "r">>, slug |-> "r", parent_slug |-> PyNone,
     parent_id |-> NoParentId, path |-> << <<"Depto", "r">> >>, path_slugs |-> <<"r">>,
     ordem |-> 0, ativo |-> TRUE, criado_em |-> 0, atualizado_em |-> 0]

EmptyCollection == [id \in {} |-> NoDoc]
SeedDepartamentos == [id \in {1} |-> RootDoc]

\* find_one({"slug": slug}): the first document with that slug
find_one_by_slug(db, slug) ==
    IF \E id \in DOMAIN db : db[id].slug = slug
    THEN db[CHOOSE id \in DOMAIN db :
                /\ db[id].slug = slug
                /\ \A other \in DOMAIN db : db[other].slug = slug => id <= other]
    ELSE NoDoc

\* the cache of existing departments: slug -> document, for the documents
\* with a truthy slug
existing_cache(db) ==
    [slug \in {db[id].slug : id \in DOMAIN db} \ {"", PyNone} |->
        find_one_by_slug(db, slug)]

\* the _id of the next document inserted: one no stored document carries
\* or refers to as its parent_id
NextId(db) ==
    LET used == DOMAIN db \cup
                {db[id].parent_id : id \in DOMAIN db}
    IN IF used = {} THEN 1
       ELSE (CHOOSE m \in used : \A other \in used : other <= m) + 1

\* update_one({"slug": slug}, {"$set": update, "$setOnInsert": {"criado_em":
\* t}}, upsert=True)
upsert_by_slug(db, slug, update, t) ==
    LET found == find_one_by_slug(db, slug) IN
    IF found # NoDoc
    THEN [db EXCEPT ![found._id] =
             [k \in DOMAIN found \cup DOMAIN update |->
                 IF k \in DOMAIN update THEN update[k] ELSE found[k]]]
    ELSE LET id == NextId(db) IN
         [i \in DOMAIN db \cup {id} |->
             IF i = id
             THEN [k \in DOMAIN update \cup {"_id", "criado_em"} |->
                      IF k = "_id" THEN id
                      ELSE IF k = "criado_em" THEN t
                      ELSE update[k]]
             ELSE db[i]]

\* dict.get(key, []) of a cached document
get_list(doc, key) == IF key \in DOMAIN doc THEN doc[key] ELSE <<>>

\* ensure_node: 400 when the slug is empty or the parent is not cached,
\* otherwise the upsert of the item and the refresh of its cache entry
ensure_node(item, existing, db, t) ==
    LET slug_norm == _norm_slug(item.slug)
        parent_slug_norm == _norm_slug(item.parent_slug)
        has_parent == ~PyFalsy(parent_slug_norm)
    IN
    IF PyFalsy(slug_norm)
    THEN [error |-> "slug é obrigatório em cada item.", existing |-> existing, db |-> db]
    ELSE IF has_parent /\ parent_slug_norm \notin DOMAIN existing
    THEN [error |-> "parent_slug não encontrado", existing |-> existing, db |-> db]
    ELSE LET parent == IF has_parent THEN existing[parent_slug_norm] ELSE NoDoc
             update == [nome |-> item.nome,
                        slug |-> slug_norm,
                        parent_slug |-> parent_slug_norm,
                        parent_id |-> IF has_parent THEN parent._id ELSE NoParentId,
                        path |-> Append(IF has_parent THEN get_list(parent, "path")
                                        ELSE <<>>, item.nome),
                        path_slugs |-> Append(IF has_parent
                                              THEN get_list(parent, "path_slugs")
                                              ELSE <<>>, slug_norm),
                        ordem |-> item.ordem,
                        ativo |-> item.ativo,
                        atualizado_em |-> t]
             stored == upsert_by_slug(db, slug_norm, update, t)
         IN [error |-> "",
             existing |-> [s \in DOMAIN existing \cup {slug_norm} |->
                              IF s = slug_norm THEN find_one_by_slug(stored, slug_norm)
                              ELSE existing[s]],
             db |-> stored]

\* [i for i in items if not i.parent_slug] and its complement, in order
IsRoot(item) == PyFalsy(item.parent_slug)
IsChild(item) == ~PyFalsy(item.parent_slug)

\* for it in roots: await ensure_node(it); the first error ends the request
RECURSIVE for_roots(_, _, _, _, _)
for_roots(roots, i, existing, db, t) ==
    IF i > Len(roots) THEN [error |-> "", existing |-> existing, db |-> db]
    ELSE LET r == ensure_node(roots[i], existing, db, t) IN
         IF r.error # "" THEN r
         ELSE for_roots(roots, i + 1, r.existing, r.db, t)

\* one pass of the for loop over remaining: an item whose parent is cached
\* is upserted, the others go to next_round
RECURSIVE for_remaining(_, _, _, _, _, _)
for_remaining(remaining, i, existing, db, next_round, t) ==
    IF i > Len(remaining)
    THEN [error |-> "", existing |-> existing, db |-> db, next_round |-> next_round]
    ELSE LET it == remaining[i]
             parent_slug_norm == _norm_slug(it.parent_slug)
         IN IF ~PyFalsy(parent_slug_norm) /\ parent_slug_norm \in DOMAIN existing
            THEN LET r == ensure_node(it, existing, db, t) IN
                 IF r.error # ""
                 THEN [error |-> r.error, existing |-> r.existing, db |-> r.db,
                       next_round |-> next_round]
                 ELSE for_remaining(remaining, i + 1, r.existing, r.db, next_round, t)
            ELSE for_remaining(remaining, i + 1, existing, db,
                               Append(next_round, it), t)

\* the request being handled: where it is (idle, loop, done), its items, the
\* cache, the loop variables and, once done, the answer; `before` is the
\* collection as the request found it (ghost)
BulkState(pc, items, existing, remaining, safety, status, detail, pending) ==
    [pc |-> pc, items |-> items, existing |-> existing, remaining |-> remaining,
     safety |-> safety, status |-> status, detail |-> detail, pending |-> pending,
     before |-> EmptyCollection]
NoBulk == BulkState("idle", <<>>, EmptyCollection, <<>>, 0, 0, "", <<>>)

----------------------------------------------------------------------------
(* The clock *)

----------------------------------------------------------------------------
(* core/crypto.py and routers/empresas.py *)

\* items a POST /empresas/bulk payload may hold
MaxLote == 2

\* a str value, and None
Text(s) == [text |-> s]
Null == [none |-> TRUE]

\* `if v`: neither None nor the empty string
Truthy(v) == v # Null /\ v # Text("")

\* a Fernet token: the string that only the key it was made under decrypts,
\* to the plaintext it was made from (its IV and timestamp are left out)
FernetToken(key, plain) == [fernet |-> key, plain |-> plain]
IsToken(v, key) == "fernet" \in DOMAIN v /\ v.fernet = key

\* enc that stores what it is given
enc_plain(v, key) == v

\* enc: fernet.encrypt(v.encode()).decode() if v else None
enc(v, key) == IF Truthy(v) THEN FernetToken(key, v) ELSE Null

\* dec: None for a falsy value, the plaintext of a token of the key, and
\* on InvalidToken the value as it came
dec(v, key) ==
    IF ~Truthy(v) THEN Null
    ELSE IF IsToken(v, key) THEN v.plain
    ELSE v

\* the values CRED_KEY takes
Keys == {"k1", "k2"}

SenhaFields == {"senha_muni", "senha_est"}

\* EmpresaCreate / EmpresaCreateBulk / EmpresaUpdate, reduced to the CNPJ
\* and the two passwords
Empresa(cnpj, senha_muni, senha_est) ==
    [cnpj |-> cnpj, senha_muni |-> senha_muni, senha_est |-> senha_est]

\* model_dump(exclude_none=True); cnpj is required and never None
exclude_none(payload) ==
    [k \in {f \in DOMAIN payload : f = "cnpj" \/ payload[f] # Null} |-> payload[k]]

\* if "senha_muni" in data: data["senha_muni"] = enc(...), and senha_est
encrypt_senhas(data, key) ==
    [k \in DOMAIN data |-> IF k \in SenhaFields THEN enc(data[k], key) ELSE data[k]]

\* doc.get(key)
doc_get(doc, key) == IF key \in DOMAIN doc THEN doc[key] ELSE Null

\* a company stored before encryption was introduced
SeedEmpresas ==
    [id \in {1} |-> [_id |-> 1, cnpj |-> "c0", senha_muni |-> Text("legacy")]]

\* ghost: what was last sent as a password, and the key at that time
Sent(v, key) == [v |-> v, key |-> key]
NoPasswords == [senha_muni |-> Null, senha_est |-> Null]
sent_passwords(old, data, key) ==
    [f \in SenhaFields |-> IF f \in DOMAIN data THEN Sent(data[f], key) ELSE old[f]]

\* coll.insert_one(data) under the unique index on cnpj; `fault` is any
\* other failure of the call
empresas_insert_one(db, data, fault) ==
    LET id == Cardinality(DOMAIN db) + 1 IN
    IF fault THEN [error |-> "Exception", db |-> db, id |-> 0]
    ELSE IF \E i \in DOMAIN db : db[i].cnpj = data.cnpj
    THEN [error |-> "DuplicateKeyError", db |-> db, id |-> 0]
    ELSE [error |-> "", id |-> id,
          db |-> [i \in DOMAIN db \cup {id} |->
                     IF i = id
                     THEN [k \in DOMAIN data \cup {"_id"} |->
                              IF k = "_id" THEN id ELSE data[k]]
                     ELSE db[i]]]

\* what the loop of criar_em_lote has gathered
Lote(db, sent, items, created_index, duplicates, errors) ==
    [db |-> db, sent |-> sent, items |-> items, created_index |-> created_index,
     duplicates |-> duplicates, errors |-> errors]

\* a loop that gives up at the first item that is not inserted
RECURSIVE criar_em_lote_stopping(_, _, _, _, _)
criar_em_lote_stopping(payload, i, key, faults, acc) ==
    IF i > Len(payload) THEN acc
    ELSE LET data == encrypt_senhas(exclude_none(payload[i]), key)
             r == empresas_insert_one(acc.db, data, i \in faults)
         IN IF r.error = ""
            THEN criar_em_lote_stopping(payload, i + 1, key, faults,
                     [acc EXCEPT !.db = r.db,
                                 !.items = Append(@, r.id),
                                 !.created_index = Append(@, i - 1)])
            ELSE [acc EXCEPT !.errors = Append(@, [index |-> i - 1])]

\* for idx, item in enumerate(payload): insert, and file the item under
\* created, duplicates or errors
RECURSIVE criar_em_lote_loop(_, _, _, _, _)
criar_em_lote_loop(payload, i, key, faults, acc) ==
    IF i > Len(payload) THEN acc
    ELSE LET data == encrypt_senhas(exclude_none(payload[i]), key)
             r == empresas_insert_one(acc.db, data, i \in faults)
         IN criar_em_lote_loop(payload, i + 1, key, faults,
               IF r.error = ""
               THEN [acc EXCEPT !.db = r.db,
                                !.sent = [id \in DOMAIN r.db |->
                                    IF id = r.id
                                    THEN sent_passwords(NoPasswords,
                                                        exclude_none(payload[i]), key)
                                    ELSE acc.sent[id]],
                                !.items = Append(@, r.id),
                                !.created_index = Append(@, i - 1)]
               ELSE IF r.error = "DuplicateKeyError"
               THEN [acc EXCEPT !.duplicates =
                        Append(@, [index |-> i - 1, cnpj |-> doc_get(data, "cnpj")])]
               ELSE [acc EXCEPT !.errors = Append(@, [index |-> i - 1])])

\* an answer of the router: the operation, the status, the _id addressed,
\* the payload and the body
Answer(op, status, id, req, body) ==
    [op |-> op, status |-> status, id |-> id, req |-> req, body |-> body]
NoAnswer == Answer("", 0, 0, Null, Null)

----------------------------------------------------------------------------
(* services/escrituracao_service.py: create_bulk *)

\* items a create_bulk payload may hold
MaxEscrituracoes == 2

\* EscrituracaoCreate, reduced to its CNPJ (14 digits after normalisation)
Cnpjs == {"c0", "c1", "c2"}

\* the collection holds one company
SeedEscrituracao == [id \in {1} |-> [_id |-> 1, cnpj |-> "c0"]]

StoredCnpjs(db) == {db[id].cnpj : id \in DOMAIN db}

\* insert_many(docs, ordered=False) under uniq_cnpj: every document is
\* tried, in order; those whose CNPJ is taken are write errors
RECURSIVE insert_many(_, _, _, _, _)
insert_many(docs, i, db, inserted_ids, write_errors) ==
    IF i > Len(docs)
    THEN [db |-> db, inserted_ids |-> inserted_ids, write_errors |-> write_errors]
    ELSE IF docs[i].cnpj \in StoredCnpjs(db)
    THEN insert_many(docs, i + 1, db, inserted_ids, write_errors + 1)
    ELSE LET id == Cardinality(DOMAIN db) + 1 IN
         insert_many(docs, i + 1,
                     [k \in DOMAIN db \cup {id} |->
                         IF k = id THEN [_id |-> id, cnpj |-> docs[i].cnpj]
                         ELSE db[k]],
                     Append(inserted_ids, id), write_errors)

\* EscrituracaoBulkResult; skipped is kept as the set of its entries
EscrituracaoBulkResult(inserted, inserted_ids, skipped, errors) ==
    [inserted |-> inserted, inserted_ids |-> inserted_ids, skipped |-> skipped,
     errors |-> errors]

\* create_bulk: the result and the collection after the call.  When
\* insert_many raises BulkWriteError, e.details carries writeErrors and
\* nInserted but no "insertedIds", so inserted_ids stays empty
create_bulk(items, skip_duplicates, db) ==
    LET cnpjs == {items[i].cnpj : i \in 1..Len(items)}
        already == IF skip_duplicates THEN StoredCnpjs(db) \cap cnpjs ELSE {}
        to_insert == SelectSeq(items, LAMBDA d : d.cnpj \notin already)
        r == insert_many(to_insert, 1, db, <<>>, 0)
    IN
    IF to_insert = <<>>
    THEN [db |-> db, result |-> EscrituracaoBulkResult(0, <<>>, already, <<>>)]
    ELSE IF r.write_errors = 0
    THEN [db |-> r.db,
          result |-> EscrituracaoBulkResult(Len(r.inserted_ids), r.inserted_ids,
                                            already, <<>>)]
    ELSE [db |-> r.db,
          result |-> EscrituracaoBulkResult(0, <<>>, already,
                                            <<"batch op errors occurred">>)]

\* a call of create_bulk: its payload, its result and the collection it
\* found (ghost)
BulkCall(items, skip_duplicates, result, before) ==
    [called |-> TRUE, items |-> items, skip_duplicates |-> skip_duplicates,
     result |-> result, before |-> before]
NoResult == [called |-> FALSE]

----------------------------------------------------------------------------
(* POST /usuarios/{usuario_id}/cursos/{curso_id}/toggle: the computation *)

POINTS_PER_COURSE == 10

\* the course ids the clients toggle
Cursos == {"k1", "k2"}

\* CursoItem(...).model_dump(); concluido_em is the ISO text of the clock
\* when the course is concluded, None when it is not
CursoItem(curso_id, concluido) ==
    [curso_id |-> curso_id, nome |-> PyNone, concluido |-> concluido,
     concluido_em |-> IF concluido THEN "now_iso" ELSE PyNone]

\* user.get("cursos_progresso", []) or []
cursos_progresso_of(user) ==
    IF "cursos_progresso" \in DOMAIN user THEN user.cursos_progresso ELSE <<>>

\* next((i for i, c in enumerate(cursos_prog) if c.get("curso_id") == curso_id), None)
\* with positions counted from 1 and 0 for None
index_of(cursos_prog, curso_id) ==
    IF \E i \in 1..Len(cursos_prog) : cursos_prog[i].curso_id = curso_id
    THEN CHOOSE i \in 1..Len(cursos_prog) :
             /\ cursos_prog[i].curso_id = curso_id
             /\ \A j \in 1..(i - 1) : cursos_prog[j].curso_id # curso_id
    ELSE 0

\* sum(1 for c in cursos_prog if c.get("concluido"))
concluidos(cursos_prog) ==
    Cardinality({i \in 1..Len(cursos_prog) : cursos_prog[i].concluido})

\* the pontos a user document holds, UsuarioRead's default when it has none
pontos_of(user) == IF "pontos" \in DOMAIN user THEN user.pontos ELSE 0

\* the list toggle_curso builds from the user it read
toggle_curso_list(user, curso_id) ==
    LET cursos_prog == cursos_progresso_of(user)
        idx == index_of(cursos_prog, curso_id)
    IN IF idx = 0
       THEN Append(cursos_prog, CursoItem(curso_id, TRUE))
       ELSE [cursos_prog EXCEPT ![idx] =
                [@ EXCEPT !.concluido = ~cursos_prog[idx].concluido,
                          !.concluido_em = IF ~cursos_prog[idx].concluido
                                           THEN "now_iso" ELSE PyNone]]

\* a toggle that moves the stored pontos by one course instead of counting
toggle_curso_update_adding(user, curso_id, t) ==
    LET new == toggle_curso_list(user, curso_id)
        idx == index_of(new, curso_id)
    IN [cursos_progresso |-> new,
        pontos |-> IF new[idx].concluido
                   THEN pontos_of(user) + POINTS_PER_COURSE
                   ELSE pontos_of(user) - POINTS_PER_COURSE,
        atualizado_em |-> t]

\* the $set document of toggle_curso, computed from the user it read
toggle_curso_update(user, curso_id, t) ==
    LET new == toggle_curso_list(user, curso_id)
    IN [cursos_progresso |-> new,
        pontos |-> concluidos(new) * POINTS_PER_COURSE,
        atualizado_em |-> t]

\* update_one({"_id": oid}, {"$set": update}) on the matched document
set_fields(old, update) ==
    [k \in DOMAIN old \cup DOMAIN update |->
        IF k \in DOMAIN update THEN update[k] ELSE old[k]]

\* what the claims read of a stored user
Progress(user) ==
    [cursos_progresso |-> cursos_progresso_of(user), pontos |-> pontos_of(user)]

\* the concluido flag of a course in a progress, false when it is not listed
concluido_in(progress, curso_id) ==
    LET idx == index_of(progress.cursos_progresso, curso_id)
    IN idx # 0 /\ progress.cursos_progresso[idx].concluido

NoUpdate == [none |-> TRUE]

\* one toggle request: where its handler is, what it read and computed
ToggleReq(pc, usuario_id, curso_id, update, status) ==
    [pc |-> pc, usuario_id |-> usuario_id, curso_id |-> curso_id,
     update |-> update, status |-> status]

NoToggle == ToggleReq("idle", "", "", NoUpdate, 0)

\* the last toggle written (1) and the one written before it (2): the course
\* and the user's progress before and after each
History(n, curso1, before1, after1, curso2, before2, after2) ==
    [n |-> n, curso1 |-> curso1, before1 |-> before1, after1 |-> after1,
     curso2 |-> curso2, before2 |-> before2, after2 |-> after2]

NoProgress == [cursos_progresso |-> <<>>, pontos |-> 0]

NoHistory == History(0, "", NoProgress, NoProgress, "", NoProgress, NoProgress)

\* the clients of the departments router
Clients == {"c1", "c2"}

\* a client's request: the operation, where it is (idle, write, done), the
\* slug it addresses, the document or update it is about to write, its answer
DeptReq(op, pc, slug, doc, status, detail) ==
    [op |-> op, pc |-> pc, slug |-> slug, doc |-> doc, status |-> status,
     detail |-> detail]
NoReq == DeptReq("", "idle", "", NoDoc, 0, "")

InitOthers ==
    /\ dreq = [c \in Clients |-> NoReq]
    /\ cred_key = "k1"
    /\ empresas = SeedEmpresas
    /\ ewritten = [id \in DOMAIN SeedEmpresas |-> NoPasswords]
    /\ eresp = NoAnswer
    /\ escrituracao = SeedEscrituracao
    /\ esresult = NoResult
    /\ treq = [c \in Clients |-> NoToggle]
    /\ thist = NoHistory

\* the instants the clock visits: a window after the start and after each of
\* the two lifetimes
Bases(cfg) == {0, AccessTTL(cfg), MajorTTL(cfg)}
Instants(cfg) == {b + o : b \in Bases(cfg), o \in 0..MaxOffset}

\* an exp later than every instant of the model
FarExp(cfg) == 2 * MajorTTL(cfg)

----------------------------------------------------------------------------
(* What a client can present as a bearer token or as the cookie *)

NoSession == [t0 |-> 0, sub |-> "", access |-> NoToken, major |-> NoToken]

Held == {session.access, session.major, refreshed, cookie} \ {NoToken}

\* the same claims signed with a key that is not the server's
Resigned(tok) == [tok EXCEPT !.sig = Sign("attacker-key", tok.alg, tok.claims)]

\* the claims edited after signing: the kind flipped, the signature kept
Flip(type) == IF type = "access" THEN "major" ELSE "access"
Tampered(tok) == [tok EXCEPT !.claims.type = Flip(tok.claims.type)]

\* tokens signed with the server's key whose claims create_token would not
\* produce from a login (create_access_token takes any sub; other services
\* may share the secret)
Crafted(cfg) ==
    { jwt_encode(Claims(c[1], c[2], FarExp(cfg), 0), cfg.SECRET_KEY, cfg.ALGORITHM) :
        c \in { <<"", "access">>, <<Absent, "access">>, <<"", "major">>,
                <<"u1", "other">>, <<"u1", Absent>>,
                <<NotAnOid, "access">>, <<NotAnOid, "major">>,
                <<GhostId, "access">>, <<GhostId, "major">> } }

Presentable ==
    {NoToken, Garbage} \cup Held
        \cup {Resigned(tok) : tok \in {session.access, session.major} \ {NoToken}}
        \cup {Tampered(tok) : tok \in {session.access, session.major} \ {NoToken}}
        \cup Crafted(settings)

----------------------------------------------------------------------------
(* The state machine *)

Init ==
    /\ now = 0
    /\ settings = DefaultSettings
    /\ usuarios = SeedUsuarios
    /\ session = NoSession
    /\ refreshed = NoToken
    /\ cookie = NoToken
    /\ resp = Idle
    /\ call = NoCall
    /\ comunicados = {}
    /\ written = SeedWritten
    /\ departamentos = SeedDepartamentos
    /\ bulk = NoBulk
    /\ InitOthers

\* time passes between requests
Tick ==
    /\ resp = Idle
    /\ \E t \in Instants(settings) : t > now /\ now' = t
    /\ resp' = Idle
    /\ UNCHANGED <<settings, usuarios, session, refreshed, cookie>>

\* POST /auth/login; d1 and d2 are the seconds that pass between the two clock
\* readings of the first and of the second create_token call
Login(email, senha, d1, d2) ==
    LET user == find_one_by_email(usuarios, email)
        verdict == IF user = NoDoc THEN "false"
                   ELSE verify_password(senha, get_senha_hash(user))
        t1 == now
        t2 == t1 + d1
        t3 == t2
        t4 == t3 + d2
    IN
    /\ resp = Idle
    /\ d1 + d2 <= MaxSkew
    /\ t4 \in Instants(settings)
    /\ IF verdict = "false"
       THEN /\ resp' = [login_fail(now) EXCEPT !.email = email, !.senha = senha]
            /\ UNCHANGED <<now, session, refreshed>>
       ELSE IF verdict = "raise" \/ ~UsuarioReadValid(_build_safe_user(user))
       THEN /\ resp' = [InternalServerError("login", now) EXCEPT
                            !.email = email, !.senha = senha]
            /\ UNCHANGED <<now, session, refreshed>>
       ELSE LET sub == user._id
                minted == login_tokens(user, t1, t2, t3, t4, settings)
            IN /\ resp' = [Response("login", now, 200, "") EXCEPT
                               !.email = email,
                               !.senha = senha,
                               !.access_token = minted.access,
                               !.set_cookie = minted.major,
                               !.sub = sub,
                               !.usuario = UsuarioRead(_build_safe_user(user))]
               /\ session' = [t0 |-> now, sub |-> sub,
                              access |-> minted.access, major |-> minted.major]
               /\ refreshed' = NoToken
               /\ now' = t4
    /\ UNCHANGED <<settings, usuarios, cookie>>

\* POST /auth/refresh with `major` as the major_token cookie; d1 seconds pass
\* between the two clock readings of create_token
Refresh(major, d1) ==
    LET failure == refresh_check(major, now, usuarios, settings)
        t1 == now
        t2 == t1 + d1
    IN
    /\ resp = Idle
    /\ d1 <= MaxSkew
    /\ t2 \in Instants(settings)
    /\ IF failure # Idle
       THEN /\ resp' = [failure EXCEPT !.req = major]
            /\ UNCHANGED <<now, refreshed>>
       ELSE LET user_id == decode_token(major, now, settings).payload.sub
                user == find_one_by_id(usuarios, user_id)
                answer == refresh_mint(user_id, user, now, t1, t2, settings)
            IN /\ resp' = [answer EXCEPT !.req = major]
               /\ refreshed' = IF answer.status = 200
                               THEN answer.access_token ELSE refreshed
               /\ now' = t2
    /\ UNCHANGED <<settings, usuarios, session, cookie>>

\* a protected route: Depends(get_current_user_id)
GetCurrentUserId(token) ==
    /\ resp = Idle
    /\ resp' = [oauth2_scheme(token, now, settings) EXCEPT !.req = token]
    /\ UNCHANGED <<now, settings, usuarios, session, refreshed, cookie>>

\* GET /auth/me
Me(authorization) ==
    /\ resp = Idle
    /\ resp' = [me(authorization, now, usuarios, settings) EXCEPT !.req = authorization]
    /\ UNCHANGED <<now, settings, usuarios, session, refreshed, cookie>>

\* POST /comunicados/{id}/comentarios resolving its optional user
GetCurrentUserOptional(authorization) ==
    /\ resp = Idle
    /\ resp' = [get_current_user_optional(authorization, now, usuarios, settings)
                   EXCEPT !.req = authorization]
    /\ UNCHANGED <<now, settings, usuarios, session, refreshed, cookie>>

\* a logout that revokes server-side by rotating the signing secret
LogoutRevoking ==
    /\ resp = Idle
    /\ resp' = [Response("logout", now, 204, "") EXCEPT !.delete_cookie = TRUE]
    /\ settings' = [settings EXCEPT !.SECRET_KEY = "rotated"]
    /\ UNCHANGED <<now, usuarios, session, refreshed, cookie>>

\* POST /auth/logout
Logout ==
    /\ resp = Idle
    /\ resp' = [Response("logout", now, 204, "") EXCEPT !.delete_cookie = TRUE]
    /\ UNCHANGED <<now, settings, usuarios, session, refreshed, cookie>>

\* the browser takes the response: Set-Cookie of _set_major_cookie stores the
\* major token, delete_cookie of logout drops it
Receive ==
    /\ resp # Idle
    /\ cookie' = IF resp.set_cookie # NoToken THEN resp.set_cookie
                 ELSE IF resp.delete_cookie THEN NoToken
                 ELSE cookie
    /\ resp' = Idle
    /\ UNCHANGED <<now, settings, usuarios, session, refreshed>>

Next ==
    \/ Tick /\ UNCHANGED offAuth
    \/ \E email \in Emails, senha \in Senhas, d1, d2 \in Skews :
          Login(email, senha, d1, d2) /\ UNCHANGED offAuth
    \/ \E major \in Presentable, d1 \in Skews :
          Refresh(major, d1) /\ UNCHANGED offAuth
    \/ \E token \in Presentable : GetCurrentUserId(token) /\ UNCHANGED offAuth
    \/ \E authorization \in Presentable : Me(authorization) /\ UNCHANGED offAuth
    \/ \E authorization \in Presentable :
          GetCurrentUserOptional(authorization) /\ UNCHANGED offAuth
    \/ Logout /\ UNCHANGED offAuth
    \/ Receive /\ UNCHANGED offAuth

Spec == Init /\ [][Next]_vars

----------------------------------------------------------------------------
(* Properties *)

----------------------------------------------------------------------------
(* Direct calls of the functions of app/core/auth.py and app/core/security.py *)

\* the dicts passed as `data`: None, {}, {"sub": ""}, {"sub": None} and one
\* with a subject
NoData == [none |-> TRUE]
EmptyDict == [k \in {} |-> ""]
Datas == {NoData, EmptyDict, [sub |-> ""], [sub |-> PyNone], [sub |-> "u1"]}

\* security.create_access_token: sub = str(data.get("sub")) when data is
\* truthy and has the key, "" otherwise; expires_minutes is ignored
create_access_token(data, t1, t2, cfg) ==
    LET sub == IF data # NoData /\ data # EmptyDict /\ "sub" \in DOMAIN data
               THEN str(data.sub) ELSE ""
    IN IF sub = "" THEN [ok |-> FALSE, token |-> NoToken]
       ELSE create_token(sub, "access", t1, t2, cfg)

\* arguments of the direct calls
Subs == {"", "u1", GhostId}
TokenTypes == {"access", "major", "refresh", ""}
Plaintexts == Senhas \cup {""}
Digests == {get_senha_hash(SeedUsuarios[id]) : id \in DOMAIN SeedUsuarios}
               \cup {NoneDigest}

InitCalls ==
    /\ now \in Instants(DefaultSettings)
    /\ settings = DefaultSettings
    /\ usuarios = SeedUsuarios
    /\ session = NoSession
    /\ refreshed = NoToken
    /\ cookie = NoToken
    /\ resp = Idle
    /\ call = NoCall
    /\ comunicados = {}
    /\ written = SeedWritten
    /\ departamentos = SeedDepartamentos
    /\ bulk = NoBulk
    /\ InitOthers

\* create_token(sub, token_type); d seconds pass between its clock readings
CallCreateToken(sub, token_type, d) ==
    LET r == create_token(sub, token_type, now, now + d, settings) IN
    /\ now + d \in Instants(settings)
    /\ call' = Outcome("create_token", <<sub, token_type>>,
                       IF r.ok THEN "" ELSE "ValueError", "", r.token)
    /\ now' = now + d
    /\ UNCHANGED <<settings, usuarios, session, refreshed, cookie, resp>>
    /\ UNCHANGED offCalls

\* create_access_token(data)
CallCreateAccessToken(data, d) ==
    LET r == create_access_token(data, now, now + d, settings) IN
    /\ now + d \in Instants(settings)
    /\ call' = Outcome("create_access_token", <<data>>,
                       IF r.ok THEN "" ELSE "ValueError", "", r.token)
    /\ now' = now + d
    /\ UNCHANGED <<settings, usuarios, session, refreshed, cookie, resp>>
    /\ UNCHANGED offCalls

\* verify_password(plain_password, hashed_password)
CallVerifyPassword(plain, hashed) ==
    LET r == verify_password(plain, hashed) IN
    /\ call' = IF r = "raise"
               THEN Outcome("verify_password", <<plain, hashed>>,
                            "UnknownHashError", "", NoToken)
               ELSE Outcome("verify_password", <<plain, hashed>>, "", r, NoToken)
    /\ UNCHANGED <<now, settings, usuarios, session, refreshed, cookie, resp>>
    /\ UNCHANGED offCalls

NextCalls ==
    \/ \E sub \in Subs, token_type \in TokenTypes, d \in Skews :
          CallCreateToken(sub, token_type, d)
    \/ \E data \in Datas, d \in Skews : CallCreateAccessToken(data, d)
    \/ \E plain \in Plaintexts, hashed \in Digests :
          CallVerifyPassword(plain, hashed)

SpecCalls == InitCalls /\ [][NextCalls]_vars

----------------------------------------------------------------------------
(* routers/usuarios.py: create, update, delete *)

\* the passwords sent to the users router
UserSenhas == {"p1"} \cup LongSenhas

\* UsuarioCreate bodies: no avatar, no welcome notes, no welcome photo
UsuarioCreates ==
    { [nome |-> "Nico", sobrenome |-> "N", email |-> email, senha |-> senha,
       welcome_notes |-> PyNone] :
        email \in {"n@x", "a@x"}, senha \in UserSenhas \cup {PyNone} }

\* UsuarioUpdate bodies as model_dump(exclude_unset=True) gives them
UsuarioUpdates ==
    { [senha |-> senha] : senha \in UserSenhas \cup {""} }
        \cup { [departamento |-> "contabil"] }

\* find_one(..., {"senha": 0, "senha_hash": 0})
without_senha(doc) == [k \in DOMAIN doc \ {"senha", "senha_hash"} |-> doc[k]]

\* convert_welcome_notes_to_html of absent notes
convert_welcome_notes_to_html(text) == IF PyFalsy(text) THEN "" ELSE text

\* the ids insert_one has handed out so far are never handed out again
UsedIds == DOMAIN usuarios \cup {c.target_user_id : c \in comunicados}

\* the document criar_usuario inserts: the dumped body without senha and the
\* welcome fields, senha_hash when a password was sent, the two timestamps
criar_usuario_doc(data, id, t) ==
    [k \in {"_id", "nome", "sobrenome", "email", "pontos", "ativo",
            "bio_publica", "criado_em", "atualizado_em"}
           \cup (IF PyFalsy(data.senha) THEN {} ELSE {"senha_hash"}) |->
        CASE k = "_id" -> id
          [] k = "pontos" -> 0
          [] k = "ativo" -> TRUE
          [] k = "bio_publica" -> data.welcome_notes
          [] k \in {"criado_em", "atualizado_em"} -> t
          [] k = "senha_hash" -> hash_password(data.senha)
          [] OTHER -> data[k]]

\* the new_hire comunicado criar_usuario inserts
new_hire(doc, welcome_notes, t) ==
    [tipo |-> "new_hire",
     titulo |-> <<"Bem-vindo(a), ", doc.nome, "!">>,
     conteudo_html |-> convert_welcome_notes_to_html(welcome_notes),
     imagem |-> PyNone,
     visibilidade |-> "public",
     status |-> "published",
     autor_id |-> PyNone,
     target_user_id |-> doc._id,
     created_at |-> t]

\* a handler in which a failed comunicado fails the request and takes the
\* user back
CriarUsuarioUndoing(data, comunicado_inserted) ==
    /\ resp = Idle
    /\ IF find_one_by_email(usuarios, data.email) # NoDoc
       THEN /\ resp' = [Response("criar_usuario", now, 409, "E-mail já cadastrado.")
                           EXCEPT !.email = data.email, !.senha = data.senha]
            /\ UNCHANGED <<usuarios, comunicados, written>>
       ELSE IF ~comunicado_inserted
       THEN /\ resp' = [Response("criar_usuario", now, 500, "Internal Server Error")
                           EXCEPT !.email = data.email, !.senha = data.senha]
            /\ UNCHANGED <<usuarios, comunicados, written>>
       ELSE \E id \in NewIds \ UsedIds :
            LET doc == criar_usuario_doc(data, id, now) IN
            /\ usuarios' = [i \in DOMAIN usuarios \cup {id} |->
                               IF i = id THEN doc ELSE usuarios[i]]
            /\ comunicados' = comunicados \cup {new_hire(doc, data.welcome_notes, now)}
            /\ written' = IF PyFalsy(data.senha) THEN written
                          ELSE [i \in DOMAIN written \cup {id} |->
                                   IF i = id THEN data.senha ELSE written[i]]
            /\ resp' = [Response("criar_usuario", now, 201, "") EXCEPT
                           !.email = data.email, !.senha = data.senha,
                           !.sub = id,
                           !.usuario = UsuarioRead(without_senha(doc))]
    /\ UNCHANGED <<now, settings, session, refreshed, cookie>>
    /\ UNCHANGED offUsers

\* POST /usuarios; comunicado_inserted says whether the insert into
\* db["comunicados"] went through: when it raises, the except branch prints
\* the failure and the handler goes on
CriarUsuarioWith(data, comunicado_inserted) ==
    /\ resp = Idle
    /\ IF find_one_by_email(usuarios, data.email) # NoDoc
       THEN /\ resp' = [Response("criar_usuario", now, 409, "E-mail já cadastrado.")
                           EXCEPT !.email = data.email, !.senha = data.senha]
            /\ UNCHANGED <<usuarios, comunicados, written>>
       ELSE \E id \in NewIds \ UsedIds :
            LET doc == criar_usuario_doc(data, id, now) IN
            /\ usuarios' = [i \in DOMAIN usuarios \cup {id} |->
                               IF i = id THEN doc ELSE usuarios[i]]
            /\ comunicados' = IF comunicado_inserted
                              THEN comunicados \cup
                                      {new_hire(doc, data.welcome_notes, now)}
                              ELSE comunicados
            /\ written' = IF PyFalsy(data.senha) THEN written
                          ELSE [i \in DOMAIN written \cup {id} |->
                                   IF i = id THEN data.senha ELSE written[i]]
            /\ resp' = [Response("criar_usuario", now, 201, "") EXCEPT
                           !.email = data.email, !.senha = data.senha,
                           !.sub = id,
                           !.usuario = UsuarioRead(without_senha(doc)),
                           !.printed = IF comunicado_inserted THEN ""
                                       ELSE "[usuarios] Falha ao criar comunicado new_hire:"]
    /\ UNCHANGED <<now, settings, session, refreshed, cookie>>
    /\ UNCHANGED offUsers

\* POST /usuarios while db["comunicados"] takes the insert
CriarUsuario(data) == CriarUsuarioWith(data, TRUE)

\* the $set document of atualizar_usuario
atualizar_usuario_update(data, t) ==
    LET hashed == "senha" \in DOMAIN data /\ ~PyFalsy(data.senha)
        keys == IF hashed THEN (DOMAIN data \ {"senha"}) \cup {"senha_hash"}
                ELSE DOMAIN data
    IN [k \in keys \cup {"atualizado_em"} |->
           IF k = "atualizado_em" THEN t
           ELSE IF k = "senha_hash" /\ hashed THEN hash_password(data.senha)
           ELSE data[k]]

\* PUT /usuarios/{usuario_id}
AtualizarUsuario(usuario_id, data) ==
    /\ resp = Idle
    /\ IF usuario_id \notin ValidObjectIds
       THEN /\ resp' = Response("atualizar_usuario", now, 400, "ID inválido.")
            /\ UNCHANGED <<usuarios, written>>
       ELSE IF usuario_id \notin DOMAIN usuarios
       THEN /\ resp' = [Response("atualizar_usuario", now, 404, "Usuário não encontrado.")
                           EXCEPT !.sub = usuario_id]
            /\ UNCHANGED <<usuarios, written>>
       ELSE LET update == atualizar_usuario_update(data, now)
                old == usuarios[usuario_id]
                doc == [k \in DOMAIN old \cup DOMAIN update |->
                           IF k \in DOMAIN update THEN update[k] ELSE old[k]]
            IN /\ usuarios' = [usuarios EXCEPT ![usuario_id] = doc]
               /\ written' = IF "senha_hash" \in DOMAIN update
                             THEN [i \in DOMAIN written \cup {usuario_id} |->
                                      IF i = usuario_id THEN data.senha
                                      ELSE written[i]]
                             ELSE written
               /\ resp' = [Response("atualizar_usuario", now, 200, "") EXCEPT
                              !.sub = usuario_id,
                              !.email = doc.email,
                              !.usuario = UsuarioRead(without_senha(doc))]
    /\ UNCHANGED <<now, settings, session, refreshed, cookie, comunicados>>
    /\ UNCHANGED offUsers

\* DELETE /usuarios/{usuario_id}
RemoverUsuario(usuario_id) ==
    /\ resp = Idle
    /\ IF usuario_id \notin ValidObjectIds
       THEN /\ resp' = Response("remover_usuario", now, 400, "ID inválido.")
            /\ UNCHANGED <<usuarios, written>>
       ELSE IF usuario_id \notin DOMAIN usuarios
       THEN /\ resp' = [Response("remover_usuario", now, 404, "Usuário não encontrado.")
                           EXCEPT !.sub = usuario_id]
            /\ UNCHANGED <<usuarios, written>>
       ELSE /\ usuarios' = [i \in DOMAIN usuarios \ {usuario_id} |-> usuarios[i]]
            /\ written' = [i \in DOMAIN written \ {usuario_id} |-> written[i]]
            /\ resp' = [Response("remover_usuario", now, 204, "") EXCEPT
                           !.sub = usuario_id]
    /\ UNCHANGED <<now, settings, session, refreshed, cookie, comunicados>>
    /\ UNCHANGED offUsers

\* the ids the update and delete requests name
UpdateIds == {"u1", NotAnOid} \cup NewIds
RemoveIds == {"u1", GhostId, NotAnOid} \cup NewIds

\* the users router next to login, refresh and a protected route, all within
\* one clock second
NextUsers ==
    \/ \E data \in UsuarioCreates : CriarUsuario(data)
    \/ \E usuario_id \in UpdateIds, data \in UsuarioUpdates :
          AtualizarUsuario(usuario_id, data)
    \/ \E usuario_id \in RemoveIds : RemoverUsuario(usuario_id)
    \/ \E email \in {"a@x", "n@x"}, senha \in UserSenhas :
          Login(email, senha, 0, 0) /\ UNCHANGED offAuth
    \/ \E major \in Presentable : Refresh(major, 0) /\ UNCHANGED offAuth
    \/ \E token \in Presentable : GetCurrentUserId(token) /\ UNCHANGED offAuth
    \/ Receive /\ UNCHANGED offAuth

SpecUsers == Init /\ [][NextUsers]_vars

\* UsuarioCreate bodies with and without welcome notes
WelcomeCreates ==
    { [nome |-> "Nico", sobrenome |-> "N", email |-> email, senha |-> senha,
       welcome_notes |-> welcome_notes] :
        email \in {"n@x", "a@x"}, senha \in UserSenhas \cup {PyNone},
        welcome_notes \in {PyNone, "Olá"} }

\* POST /usuarios alone, with db["comunicados"] taking the insert or not
NextOnboarding ==
    \/ \E data \in WelcomeCreates, comunicado_inserted \in BOOLEAN :
          CriarUsuarioWith(data, comunicado_inserted)
    \/ Receive /\ UNCHANGED offAuth

SpecOnboarding == Init /\ [][NextOnboarding]_vars

----------------------------------------------------------------------------
(* core/config.py: the settings are read when the process starts *)

\* what SECRET_KEY and ALGORITHM can be set to in the environment
Configs ==
    { [DefaultSettings EXCEPT !.SECRET_KEY = key, !.ALGORITHM = alg] :
        key \in {"change-me", "rotated"}, alg \in {"HS256", "HS512"} }

\* the service is restarted with another environment; the database and the
\* tokens the clients hold stay as they are
Restart(cfg) ==
    /\ resp = Idle
    /\ cfg # settings
    /\ settings' = cfg
    /\ UNCHANGED <<now, usuarios, session, refreshed, cookie, resp>>
    /\ UNCHANGED offAuth

NextRestart ==
    \/ \E cfg \in Configs : Restart(cfg)
    \/ \E email \in {"a@x", "b@x"}, senha \in Senhas, d1, d2 \in Skews :
          Login(email, senha, d1, d2) /\ UNCHANGED offAuth
    \/ \E major \in Presentable, d1 \in Skews :
          Refresh(major, d1) /\ UNCHANGED offAuth
    \/ \E token \in Presentable : GetCurrentUserId(token) /\ UNCHANGED offAuth
    \/ Receive /\ UNCHANGED offAuth

SpecRestart == Init /\ [][NextRestart]_vars

----------------------------------------------------------------------------
(* POST /departamentos/bulk, one step per round of its while loop *)

InitBulk ==
    /\ now = 0
    /\ settings = DefaultSettings
    /\ usuarios = SeedUsuarios
    /\ session = NoSession
    /\ refreshed = NoToken
    /\ cookie = NoToken
    /\ resp = Idle
    /\ call = NoCall
    /\ comunicados = {}
    /\ written = SeedWritten
    /\ departamentos \in {EmptyCollection, SeedDepartamentos}
    /\ bulk = NoBulk
    /\ InitOthers

\* the request arrives: the cache is filled, the roots are upserted, the
\* children become the remaining list
BulkBegin(items) ==
    LET roots == SelectSeq(items, IsRoot)
        children == SelectSeq(items, IsChild)
        r == for_roots(roots, 1, existing_cache(departamentos), departamentos, now)
    IN
    /\ bulk.pc = "idle"
    /\ departamentos' = r.db
    /\ bulk' = [(IF r.error # ""
                 THEN BulkState("done", items, r.existing, <<>>, 0, 400, r.error, <<>>)
                 ELSE BulkState("loop", items, r.existing, children, 0, 0, "", <<>>))
                   EXCEPT !.before = departamentos]
    /\ UNCHANGED <<now, settings, usuarios, session, refreshed, cookie, resp, call,
                   comunicados, written, others>>

\* one iteration of `while remaining and safety < 10000`
BulkRound ==
    LET r == for_remaining(bulk.remaining, 1, bulk.existing, departamentos, <<>>, now)
    IN
    /\ bulk.pc = "loop"
    /\ bulk.remaining # <<>>
    /\ bulk.safety < SafetyCap
    /\ departamentos' = r.db
    /\ bulk' = IF r.error # ""
               THEN [bulk EXCEPT !.pc = "done", !.existing = r.existing,
                                 !.safety = @ + 1,
                                 !.status = 400, !.detail = r.error]
               ELSE IF Len(r.next_round) = Len(bulk.remaining)
               THEN [bulk EXCEPT !.pc = "done", !.safety = @ + 1,
                                 !.status = 400,
                                 !.detail = "Pais não resolvidos para: ",
                                 !.pending = [i \in 1..Len(r.next_round) |->
                                                 r.next_round[i].slug]]
               ELSE [bulk EXCEPT !.existing = r.existing, !.safety = @ + 1,
                                 !.remaining = r.next_round]
    /\ UNCHANGED <<now, settings, usuarios, session, refreshed, cookie, resp, call,
                   comunicados, written, others>>

\* the loop condition is false: return {"ok": True, "count": len(items)}
BulkReturn ==
    /\ bulk.pc = "loop"
    /\ ~(bulk.remaining # <<>> /\ bulk.safety < SafetyCap)
    /\ bulk' = [bulk EXCEPT !.pc = "done", !.status = 200]
    /\ UNCHANGED <<now, settings, usuarios, session, refreshed, cookie, resp, call,
                   comunicados, written, departamentos, others>>

NextBulk ==
    \/ bulk.pc = "idle" /\ \E items \in Batches : BulkBegin(items)
    \/ BulkRound
    \/ BulkReturn

SpecBulk == InitBulk /\ [][NextBulk]_vars

----------------------------------------------------------------------------
(* routers/departamentos.py: POST, PUT and DELETE, two clients at a time *)

\* the largest _id the collection hands out
MaxDeptos == 3
\* the longest path a POST or PUT writes
MaxDepth == 2

\* DepartamentoCreate (ordem and ativo at their defaults)
DepartamentoCreates ==
    { BulkItem("a", "r"), BulkItem("r", "x"), BulkItem("", PyNone) }

\* DepartamentoUpdate.model_dump(exclude_unset=True): the fields that were
\* set
DepartamentoUpdates ==
    { [slug |-> "B "],
      [parent_slug |-> "a"],
      [parent_slug |-> "x"],
      [ativo |-> TRUE] }

\* the slugs of the paths PUT and DELETE are called on
PathSlugs == {"r", "a"}

\* criar_departamento up to the insert: the checks in the order of the
\* code, then the document to insert
criar_departamento_check(payload, db, t) ==
    LET parent_slug_norm == _norm_slug(payload.parent_slug)
        has_parent == ~PyFalsy(parent_slug_norm)
        parent_doc == IF has_parent THEN find_one_by_slug(db, parent_slug_norm)
                      ELSE NoDoc
        slug_norm == _norm_slug(payload.slug)
    IN
    IF has_parent /\ parent_doc = NoDoc
    THEN [status |-> 400, detail |-> "parent_slug não encontrado.", doc |-> NoDoc]
    ELSE IF PyFalsy(slug_norm)
    THEN [status |-> 400, detail |-> "slug é obrigatório.", doc |-> NoDoc]
    ELSE IF find_one_by_slug(db, slug_norm) # NoDoc
    THEN [status |-> 409, detail |-> "slug já existe.", doc |-> NoDoc]
    ELSE [status |-> 0, detail |-> "",
          doc |-> [nome |-> payload.nome,
                   slug |-> slug_norm,
                   parent_slug |-> parent_slug_norm,
                   parent_id |-> IF has_parent THEN parent_doc._id ELSE NoParentId,
                   path |-> Append(IF has_parent THEN get_list(parent_doc, "path")
                                   ELSE <<>>, payload.nome),
                   path_slugs |-> Append(IF has_parent
                                         THEN get_list(parent_doc, "path_slugs")
                                         ELSE <<>>, slug_norm),
                   ordem |-> payload.ordem,
                   ativo |-> payload.ativo,
                   criado_em |-> t,
                   atualizado_em |-> t]]

\* insert_one under the unique index on slug
insert_one(db, doc) ==
    LET id == NextId(db) IN
    IF doc.slug \in {db[i].slug : i \in DOMAIN db}
    THEN [error |-> "DuplicateKeyError", db |-> db]
    ELSE [error |-> "",
          db |-> [i \in DOMAIN db \cup {id} |->
                     IF i = id
                     THEN [k \in DOMAIN doc \cup {"_id"} |->
                              IF k = "_id" THEN id ELSE doc[k]]
                     ELSE db[i]]]

\* atualizar_departamento up to update_one: the $set document, with
\* parent_id, path and path_slugs recomputed when nome, slug or parent_slug
\* is set
atualizar_departamento_update(slug, data, db, t) ==
    LET slug_norm == _norm_slug(slug)
        given == DOMAIN data
        update == [k \in given \cup {"atualizado_em"} |->
                      IF k = "atualizado_em" THEN t
                      ELSE IF k \in {"slug", "parent_slug"} THEN _norm_slug(data[k])
                      ELSE data[k]]
        current == find_one_by_slug(db, slug_norm)
        new_nome == IF "nome" \in given THEN update.nome ELSE current.nome
        new_slug == IF "slug" \in given THEN update.slug ELSE current.slug
        new_parent_slug == IF "parent_slug" \in given THEN update.parent_slug
                           ELSE current.parent_slug
        has_parent == ~PyFalsy(new_parent_slug)
        parent == IF has_parent THEN find_one_by_slug(db, new_parent_slug)
                  ELSE NoDoc
    IN
    IF given \cap {"parent_slug", "nome", "slug"} = {}
    THEN [status |-> 0, detail |-> "", doc |-> update]
    ELSE IF current = NoDoc
    THEN [status |-> 404, detail |-> "Departamento não encontrado.", doc |-> NoDoc]
    ELSE IF has_parent /\ parent = NoDoc
    THEN [status |-> 400, detail |-> "parent_slug não encontrado.", doc |-> NoDoc]
    ELSE [status |-> 0, detail |-> "",
          doc |-> [k \in DOMAIN update \cup {"parent_id", "path", "path_slugs"} |->
                      IF k = "parent_id"
                      THEN (IF has_parent THEN parent._id ELSE NoParentId)
                      ELSE IF k = "path"
                      THEN Append(IF has_parent THEN get_list(parent, "path")
                                  ELSE <<>>, new_nome)
                      ELSE IF k = "path_slugs"
                      THEN Append(IF has_parent THEN get_list(parent, "path_slugs")
                                  ELSE <<>>, new_slug)
                      ELSE update[k]]]

\* update_one({"slug": slug}, {"$set": update}) under the unique index on
\* slug: matched says whether a document had the slug
update_one(db, slug, update) ==
    LET found == find_one_by_slug(db, slug) IN
    IF found = NoDoc THEN [error |-> "", matched |-> 0, db |-> db]
    ELSE IF /\ "slug" \in DOMAIN update
            /\ \E i \in DOMAIN db : i # found._id /\ db[i].slug = update.slug
    THEN [error |-> "DuplicateKeyError", matched |-> 0, db |-> db]
    ELSE [error |-> "", matched |-> 1,
          db |-> [db EXCEPT ![found._id] =
                     [k \in DOMAIN found \cup DOMAIN update |->
                         IF k \in DOMAIN update THEN update[k] ELSE found[k]]]]

\* delete_one({"slug": slug})
delete_one(db, slug) ==
    LET found == find_one_by_slug(db, slug) IN
    IF found = NoDoc THEN [deleted_count |-> 0, db |-> db]
    ELSE [deleted_count |-> 1,
          db |-> [i \in DOMAIN db \ {found._id} |-> db[i]]]

Free(c) == dreq[c].pc # "write"

\* POST /departamentos, up to the insert
CriarDepartamentoBegin(c, payload) ==
    LET r == criar_departamento_check(payload, departamentos, now) IN
    /\ Free(c)
    /\ dreq' = [dreq EXCEPT ![c] =
                   IF r.status # 0
                   THEN DeptReq("POST", "done", _norm_slug(payload.slug), NoDoc,
                                r.status, r.detail)
                   ELSE DeptReq("POST", "write", r.doc.slug, r.doc, 0, "")]
    /\ UNCHANGED <<now, settings, usuarios, session, refreshed, cookie, resp, call,
                   comunicados, written, departamentos, bulk, companies, bookkeeping, courses>>

\* POST /departamentos, the insert and the answer; a DuplicateKeyError is
\* not caught and becomes a 500
CriarDepartamentoInsert(c) ==
    LET r == insert_one(departamentos, dreq[c].doc) IN
    /\ dreq[c].op = "POST" /\ dreq[c].pc = "write"
    /\ NextId(departamentos) <= MaxDeptos
    /\ Len(dreq[c].doc.path_slugs) <= MaxDepth
    /\ departamentos' = r.db
    /\ dreq' = [dreq EXCEPT ![c] =
                   IF r.error # ""
                   THEN DeptReq("POST", "done", @.slug, NoDoc, 500, "Internal Server Error")
                   ELSE DeptReq("POST", "done", @.slug, NoDoc, 200, "")]
    /\ UNCHANGED <<now, settings, usuarios, session, refreshed, cookie, resp, call,
                   comunicados, written, bulk, companies, bookkeeping, courses>>

\* PUT /departamentos/{slug}, up to update_one
AtualizarDepartamentoBegin(c, slug, data) ==
    LET r == atualizar_departamento_update(slug, data, departamentos, now) IN
    /\ Free(c)
    /\ dreq' = [dreq EXCEPT ![c] =
                   IF r.status # 0
                   THEN DeptReq("PUT", "done", _norm_slug(slug), NoDoc,
                                r.status, r.detail)
                   ELSE DeptReq("PUT", "write", _norm_slug(slug), r.doc, 0, "")]
    /\ UNCHANGED <<now, settings, usuarios, session, refreshed, cookie, resp, call,
                   comunicados, written, departamentos, bulk, companies, bookkeeping, courses>>

\* PUT /departamentos/{slug}, update_one and the answer
AtualizarDepartamentoWrite(c) ==
    LET r == update_one(departamentos, dreq[c].slug, dreq[c].doc) IN
    /\ dreq[c].op = "PUT" /\ dreq[c].pc = "write"
    /\ "path_slugs" \in DOMAIN dreq[c].doc => Len(dreq[c].doc.path_slugs) <= MaxDepth
    /\ departamentos' = r.db
    /\ dreq' = [dreq EXCEPT ![c] =
                   IF r.error # ""
                   THEN DeptReq("PUT", "done", @.slug, NoDoc, 500, "Internal Server Error")
                   ELSE IF r.matched = 0
                   THEN DeptReq("PUT", "done", @.slug, NoDoc, 404,
                                "Departamento não encontrado.")
                   ELSE DeptReq("PUT", "done", @.slug, NoDoc, 200, "")]
    /\ UNCHANGED <<now, settings, usuarios, session, refreshed, cookie, resp, call,
                   comunicados, written, bulk, companies, bookkeeping, courses>>

\* DELETE /departamentos/{slug}
RemoverDepartamento(c, slug) ==
    LET r == delete_one(departamentos, _norm_slug(slug)) IN
    /\ Free(c)
    /\ departamentos' = r.db
    /\ dreq' = [dreq EXCEPT ![c] =
                   IF r.deleted_count = 0
                   THEN DeptReq("DELETE", "done", _norm_slug(slug), NoDoc, 404,
                                "Departamento não encontrado.")
                   ELSE DeptReq("DELETE", "done", _norm_slug(slug), NoDoc, 200, "")]
    /\ UNCHANGED <<now, settings, usuarios, session, refreshed, cookie, resp, call,
                   comunicados, written, bulk, companies, bookkeeping, courses>>

\* the batches sent while the clients are at work
SmallBatches ==
    { <<BulkItem("b", "a"), BulkItem("a", PyNone)>> }

NextDeptos ==
    \/ \E c \in Clients, payload \in DepartamentoCreates :
          CriarDepartamentoBegin(c, payload)
    \/ \E c \in Clients : CriarDepartamentoInsert(c)
    \/ \E c \in Clients, slug \in PathSlugs, data \in DepartamentoUpdates :
          AtualizarDepartamentoBegin(c, slug, data)
    \/ \E c \in Clients : AtualizarDepartamentoWrite(c)
    \/ \E c \in Clients, slug \in PathSlugs : RemoverDepartamento(c, slug)
    \/ /\ bulk.pc = "idle"
       /\ NextId(departamentos) <= MaxDeptos
       /\ \E items \in SmallBatches : BulkBegin(items)
    \/ BulkRound
    \/ BulkReturn

SpecDeptos == Init /\ [][NextDeptos]_vars

----------------------------------------------------------------------------
(* routers/empresas.py: the handlers *)

\* what the handlers of the companies router leave alone
offEmpresas == <<now, settings, usuarios, session, refreshed, cookie, resp, call,
                 comunicados, written, departamentos, bulk, dreq, bookkeeping, courses>>

EmpresaCreates ==
    { Empresa(cnpj, senha_muni, Null) :
        cnpj \in {"c0", "c1"}, senha_muni \in {Null, Text(""), Text("s1")} }

\* the items of the bulk payloads: a new company, with one password or the
\* other, and one whose CNPJ is stored
EmpresaCreateBulks ==
    { Empresa("c1", Text("s1"), Null), Empresa("c1", Null, Text("s1")),
      Empresa("c0", Text("s1"), Null) }
Lotes == UNION { [1..n -> EmpresaCreateBulks] : n \in 0..MaxLote }

\* EmpresaUpdate.model_dump(exclude_unset=True, exclude_none=True)
EmpresaUpdates ==
    { [senha_muni |-> Text("s1")], [senha_muni |-> Text("")],
      [senha_est |-> Text("s1")] }

\* the ids of the paths: the stored ones and one that is not stored
EmpresaIds == DOMAIN empresas \cup {0}

\* POST /empresas
Criar(payload) ==
    LET data == encrypt_senhas(exclude_none(payload), cred_key)
        r == empresas_insert_one(empresas, data, FALSE)
    IN
    /\ eresp = NoAnswer
    /\ IF r.error # ""
       THEN /\ eresp' = Answer("criar", 400, 0, payload, Text("CNPJ já cadastrado"))
            /\ UNCHANGED <<empresas, ewritten>>
       ELSE /\ empresas' = r.db
            /\ ewritten' = [id \in DOMAIN r.db |->
                               IF id = r.id
                               THEN sent_passwords(NoPasswords, exclude_none(payload),
                                                   cred_key)
                               ELSE ewritten[id]]
            /\ eresp' = Answer("criar", 201, r.id, payload, Null)
    /\ UNCHANGED <<cred_key, offEmpresas>>

\* POST /empresas/bulk; faults are the items whose insert fails for a
\* reason other than a duplicate key
CriarEmLote(payload, faults) ==
    LET r == criar_em_lote_loop(payload, 1, cred_key, faults,
                                Lote(empresas, ewritten, <<>>, <<>>, <<>>, <<>>))
    IN
    /\ eresp = NoAnswer
    /\ empresas' = r.db
    /\ ewritten' = r.sent
    /\ eresp' = Answer("bulk", 201, 0, payload,
                       [created |-> Len(r.items),
                        duplicates |-> Len(r.duplicates),
                        errors |-> Len(r.errors),
                        items |-> r.items,
                        created_index |-> r.created_index,
                        duplicates_detail |-> r.duplicates,
                        errors_detail |-> r.errors,
                        before |-> empresas])
    /\ UNCHANGED <<cred_key, offEmpresas>>

\* PUT /empresas/{empresa_id}
Atualizar(empresa_id, payload) ==
    LET data == encrypt_senhas(payload, cred_key) IN
    /\ eresp = NoAnswer
    /\ IF empresa_id \notin DOMAIN empresas
       THEN /\ eresp' = Answer("atualizar", 404, empresa_id, payload,
                               Text("Empresa não encontrada"))
            /\ UNCHANGED <<empresas, ewritten>>
       ELSE /\ empresas' = [empresas EXCEPT ![empresa_id] =
                               [k \in DOMAIN @ \cup DOMAIN data |->
                                   IF k \in DOMAIN data THEN data[k] ELSE @[k]]]
            /\ ewritten' = [ewritten EXCEPT ![empresa_id] =
                               sent_passwords(@, payload, cred_key)]
            /\ eresp' = Answer("atualizar", 200, empresa_id, payload, Null)
    /\ UNCHANGED <<cred_key, offEmpresas>>

\* GET /empresas/{empresa_id}/credentials
ObterCredenciais(empresa_id, api_key_ok) ==
    /\ eresp = NoAnswer
    /\ eresp' =
         IF ~api_key_ok
         THEN Answer("credentials", 401, empresa_id, Null, Text("API key inválida"))
         ELSE IF empresa_id \notin DOMAIN empresas
         THEN Answer("credentials", 404, empresa_id, Null,
                     Text("Empresa não encontrada"))
         ELSE Answer("credentials", 200, empresa_id, Null,
                     [senha_muni |-> dec(doc_get(empresas[empresa_id], "senha_muni"),
                                         cred_key),
                      senha_est |-> dec(doc_get(empresas[empresa_id], "senha_est"),
                                        cred_key)])
    /\ UNCHANGED <<cred_key, empresas, ewritten, offEmpresas>>

\* the service is restarted with another CRED_KEY in its .env
RotateKey ==
    /\ eresp = NoAnswer
    /\ cred_key' \in Keys \ {cred_key}
    /\ UNCHANGED <<empresas, ewritten, eresp, offEmpresas>>

\* the answer is delivered
Deliver ==
    /\ eresp # NoAnswer
    /\ eresp' = NoAnswer
    /\ UNCHANGED <<cred_key, empresas, ewritten, offEmpresas>>

NextEmpresas ==
    \/ \E payload \in EmpresaCreates : Criar(payload)
    \/ /\ eresp = NoAnswer
       /\ \E payload \in Lotes : \E faults \in SUBSET (1..Len(payload)) :
             CriarEmLote(payload, faults)
    \/ \E empresa_id \in EmpresaIds, payload \in EmpresaUpdates :
          Atualizar(empresa_id, payload)
    \/ \E empresa_id \in EmpresaIds, api_key_ok \in BOOLEAN :
          ObterCredenciais(empresa_id, api_key_ok)
    \/ RotateKey
    \/ Deliver

SpecEmpresas == Init /\ [][NextEmpresas]_vars

----------------------------------------------------------------------------
(* services/escrituracao_service.py: the calls *)

EscrituracaoItems ==
    UNION { [1..n -> [cnpj : Cnpjs]] : n \in 0..MaxEscrituracoes }

CreateBulk(items, skip_duplicates) ==
    LET r == create_bulk(items, skip_duplicates, escrituracao) IN
    /\ escrituracao' = r.db
    /\ esresult' = BulkCall(items, skip_duplicates, r.result, escrituracao)
    /\ UNCHANGED <<now, settings, usuarios, session, refreshed, cookie, resp, call,
                   comunicados, written, departamentos, bulk, dreq, companies, courses>>

NextEscrituracao ==
    \E items \in EscrituracaoItems, skip_duplicates \in BOOLEAN :
        CreateBulk(items, skip_duplicates)

SpecEscrituracao == Init /\ [][NextEscrituracao]_vars

\* the browser holds no major_token cookie although a login issued one: a
\* logout has been delivered since the last login (ghost)
LoggedOut == session # NoSession /\ cookie = NoToken /\ resp.op # "login"

\* the response in flight answers a request made with token `req`
Answered(op) == resp.op = op /\ resp.req # NoToken

\* C1: a token minted by create_token for subject s and kind k (the login's
\* access and major tokens, the refresh's access token) decodes, at any time
\* before its exp under the same settings, to a payload with sub = s and
\* type = k.
C1_RoundTrip ==
    /\ \A k \in {"access", "major"} :
          LET tok == IF k = "access" THEN session.access ELSE session.major IN
          (tok # NoToken /\ now < tok.claims.exp) =>
              LET d == decode_token(tok, now, settings) IN
              d.ok /\ d.payload.sub = session.sub /\ d.payload.type = k
    /\ (resp.op = "refresh" /\ resp.status = 200
            /\ now < resp.access_token.claims.exp) =>
          LET d == decode_token(resp.access_token, now, settings) IN
          d.ok /\ d.payload.sub = resp.sub /\ d.payload.type = "access"

\* both kinds have been minted by a login, an access token by a refresh, and
\* all three are decoded before their exp
C1_Witness ==
    /\ resp.op = "refresh" /\ resp.status = 200
    /\ session.major # NoToken /\ session.access # NoToken
    /\ now < session.access.claims.exp
    /\ decode_token(session.major, now, settings).payload.type = "major"
    /\ decode_token(session.access, now, settings).payload.sub = session.sub

\* C2: at every clock time t >= exp, t = exp included, decode_token fails,
\* for the tokens of both kinds.
C2_RejectedFromExp ==
    \A tok \in Held :
        now >= tok.claims.exp => ~decode_token(tok, now, settings).ok

\* C3: a valid, unexpired access token sent as the major_token cookie to
\* refresh yields 401 and mints nothing; a valid, unexpired major token sent
\* as the bearer token to get_current_user_id yields 401 and no subject.
C3_NoKindSwap ==
    /\ (/\ Answered("refresh")
        /\ decode_token(resp.req, resp.at, settings).ok
        /\ resp.req.claims.type = "access")
          => /\ resp.status = 401
             /\ resp.access_token = NoToken
             /\ resp.set_cookie = NoToken
             /\ resp.sub = ""
    /\ (/\ Answered("get_current_user_id")
        /\ decode_token(resp.req, resp.at, settings).ok
        /\ resp.req.claims.type = "major")
          => /\ resp.status = 401
             /\ resp.sub = ""
             /\ resp.access_token = NoToken

\* the session's valid major token has just been refused as a bearer token,
\* while refresh refuses the session's valid access token as the cookie
C3_Witness ==
    /\ Answered("get_current_user_id")
    /\ resp.req = session.major
    /\ decode_token(resp.req, resp.at, settings).ok
    /\ resp.status = 401
    /\ decode_token(session.access, now, settings).ok
    /\ refresh_check(session.access, now, usuarios, settings).status = 401

\* a bearer token or cookie that decode_token accepts when the request is
\* handled
Decodable(tok, t) == tok # NoToken /\ decode_token(tok, t, settings).ok

\* C4: every flow that identifies a user from the bearer header
\* (get_current_user_id, GET /auth/me, get_current_user_optional) rejects a
\* major token: it identifies no user.
C4_BearerFlowsRejectMajor ==
    (/\ resp.op \in {"get_current_user_id", "me", "get_current_user_optional"}
     /\ Decodable(resp.req, resp.at)
     /\ resp.req.claims.type = "major")
       => /\ resp.sub = ""
          /\ resp.usuario = NoDoc
          /\ resp.op # "get_current_user_optional" => resp.status = 401

\* C5: no token of the session begun by the login at t0 (its major token, its
\* access token, an access token minted by a refresh) is accepted by
\* decode_token or get_current_user_id at a time >= t0 + major TTL.
C5_HardCeiling ==
    \A tok \in {session.major, session.access, refreshed} \ {NoToken} :
        now >= session.t0 + MajorTTL(settings) =>
            /\ ~decode_token(tok, now, settings).ok
            /\ get_current_user_id(tok, now, settings).status = 401

\* C6: refresh never creates a major token and never sets, clears or changes
\* the major_token cookie; it mints at most one token, of type access, and
\* only on success; a major token is created, and the cookie set, only by
\* login.
C6_RefreshMintsOnlyAccess ==
    [][ /\ (resp = Idle /\ resp'.op = "refresh") =>
              /\ cookie' = cookie
              /\ session' = session
              /\ resp'.set_cookie = NoToken
              /\ ~resp'.delete_cookie
              /\ resp'.access_token # NoToken =>
                    /\ resp'.status = 200
                    /\ resp'.access_token.claims.type = "access"
              /\ refreshed' \in {refreshed, resp'.access_token}
        /\ (resp.op = "refresh" /\ resp' = Idle) => cookie' = cookie
        /\ (resp'.set_cookie # NoToken \/ session'.major # session.major) =>
              /\ resp'.op = "login"
              /\ resp'.set_cookie = session'.major
              /\ resp'.set_cookie.claims.type = "major"
      ]_vars

\* a refresh has succeeded with the browser's cookie, which is still the
\* login's major token
C6_Witness ==
    /\ resp.op = "refresh" /\ resp.status = 200
    /\ resp.req = cookie
    /\ cookie = session.major
    /\ refreshed = resp.access_token

\* C7 as stated: after a successful login, a successful refresh with that
\* login's major token, however soon, returns an access token with the same
\* sub that differs from the login's access token and has a distinct iat.
C7_RefreshedDiffers ==
    (resp.op = "refresh" /\ resp.status = 200 /\ resp.req = session.major) =>
        /\ resp.access_token.claims.sub = session.sub
        /\ resp.access_token # session.access
        /\ resp.access_token.claims.iat # session.access.claims.iat

\* C7 amended: the refreshed access token always carries the login's sub; it
\* has a later iat than, and so differs from, the login's access token
\* whenever the refresh is handled in a later clock second than that token's
\* iat.
C7_RefreshedDiffersAfterASecond ==
    (resp.op = "refresh" /\ resp.status = 200 /\ resp.req = session.major) =>
        /\ resp.access_token.claims.sub = session.sub
        /\ resp.access_token.claims.sub = session.access.claims.sub
        /\ resp.at > session.access.claims.iat =>
              /\ resp.access_token.claims.iat > session.access.claims.iat
              /\ resp.access_token # session.access

\* a refresh handled in a later second than the login has answered
C7_Witness ==
    /\ resp.op = "refresh" /\ resp.status = 200 /\ resp.req = session.major
    /\ resp.at > session.access.claims.iat
    /\ resp.access_token # session.access

C9_LoginTokens ==
    resp.op = "login" =>
        IF resp.status = 200
        THEN LET user == find_one_by_email(usuarios, resp.email) IN
             /\ user # NoDoc
             /\ resp.access_token.form = "jwt"
             /\ resp.access_token.claims.type = "access"
             /\ resp.access_token.claims.sub = user._id
             /\ resp.set_cookie.form = "jwt"
             /\ resp.set_cookie.claims.type = "major"
             /\ resp.set_cookie.claims.sub = user._id
             /\ session.access = resp.access_token
             /\ session.major = resp.set_cookie
             /\ session.sub = user._id
        ELSE /\ resp.access_token = NoToken
             /\ resp.set_cookie = NoToken

\* the user stored with a legacy bcrypt digest has logged in
C9_Witness ==
    /\ resp.op = "login" /\ resp.status = 200
    /\ resp.email = "b@x"
    /\ resp.set_cookie.claims.sub = "u2"

\* C10: get_current_user_id answers every failure with the one 401 response
\* (same detail, WWW-Authenticate: Bearer) and returns a subject only for an
\* unexpired (handled before exp), correctly signed token of type access
\* with a non-empty sub.
C10_GuardCollapses ==
    Answered("get_current_user_id") =>
        IF resp.status = 200
        THEN /\ resp.req.form = "jwt"
             /\ resp.req.alg = settings.ALGORITHM
             /\ resp.req.sig = Sign(settings.SECRET_KEY, resp.req.alg, resp.req.claims)
             /\ resp.at < resp.req.claims.exp
             /\ resp.req.claims.type = "access"
             /\ ~Falsy(resp.req.claims.sub)
             /\ resp.sub = resp.req.claims.sub
        ELSE [resp EXCEPT !.req = NoToken] = Unauthorized401(resp.at)

\* C11: POST /auth/refresh returns one and the same unauthorized response
\* for every failure cause: whatever cookie is presented, a refusal is the
\* response every other refused cookie gets (401, identical body), so the
\* response does not tell whether the user record exists.
C11_OneRefreshFailure ==
    (resp.op = "refresh" /\ resp.status # 200) =>
        \A major \in Presentable \cup {NoToken} :
            LET failure == refresh_check(major, resp.at, usuarios, settings) IN
            failure # Idle => failure = [resp EXCEPT !.req = NoToken]

\* C12: logout answers 204 and only clears the cookie; after it, the major
\* token of the session presented again before its exp still mints an access
\* token for the session's subject via refresh, and the access token of the
\* session still passes get_current_user_id before its own exp.
C12_LogoutRevokesNothing ==
    /\ resp.op = "logout" =>
          /\ resp.status = 204
          /\ resp.delete_cookie
          /\ resp.set_cookie = NoToken
          /\ resp.access_token = NoToken
    /\ (/\ LoggedOut
        /\ resp.op = "refresh"
        /\ resp.req = session.major
        /\ resp.at < session.major.claims.exp)
          => /\ resp.status = 200
             /\ resp.access_token.claims.type = "access"
             /\ resp.access_token.claims.sub = session.sub
             /\ decode_token(resp.access_token, now, settings).ok
    /\ (/\ LoggedOut
        /\ resp.op = "get_current_user_id"
        /\ resp.req = session.access
        /\ resp.at < session.access.claims.exp)
          => /\ resp.status = 200
             /\ resp.sub = session.sub

\* after a logout was delivered, the old major token has minted an access
\* token and the old access token is still accepted by the guard
C12_Witness ==
    /\ LoggedOut
    /\ resp.op = "refresh"
    /\ resp.req = session.major
    /\ resp.status = 200
    /\ get_current_user_id(session.access, now, settings).status = 200

\* C13: every token produced by create_token satisfies exp = iat + TTL(kind)
\* exactly, TTL being ACCESS_TOKEN_EXPIRE_MINUTES*60 for access and
\* MAJOR_TOKEN_EXPIRE_HOURS*3600 for major, at every clock reading.
C13_ExpIsIatPlusTTL ==
    (call.fn = "create_token" /\ call.raised = "") =>
        call.token.claims.exp =
            call.token.claims.iat
                + (IF call.token.claims.type = "access"
                   THEN AccessTTL(settings) ELSE MajorTTL(settings))

\* C14: create_token raises an argument error and produces no token whenever
\* sub is empty or token_type is neither 'access' nor 'major'; so does
\* create_access_token when data has no 'sub' or an empty one.
C14_ArgumentErrors ==
    /\ (/\ call.fn = "create_token"
        /\ \/ call.args[1] = ""
           \/ call.args[2] \notin {"access", "major"})
          => call.raised = "ValueError" /\ call.token = NoToken
    /\ (/\ call.fn = "create_access_token"
        /\ \/ call.args[1] = NoData
           \/ "sub" \notin DOMAIN call.args[1]
           \/ call.args[1].sub = "")
          => call.raised = "ValueError" /\ call.token = NoToken

\* create_token has refused a non-empty subject because of the token type
C14_Witness ==
    /\ call.fn = "create_token"
    /\ call.args = <<"u1", "refresh">>
    /\ call.raised = "ValueError"
    /\ create_access_token([sub |-> ""], now, now, settings).ok = FALSE

\* C15: verify_password is total: for every plaintext and every digest
\* value (empty, missing, not in a recognised format included) it returns
\* true or false and never raises.
C15_VerifyPasswordTotal ==
    call.fn = "verify_password" =>
        call.raised = "" /\ call.returned \in {"true", "false"}

\* the stored record a 200 response of login or refresh was built from
StoredFor(r) ==
    IF r.op = "login" THEN find_one_by_email(usuarios, r.email)
    ELSE find_one_by_id(usuarios, r.sub)

\* C17 as claimed: the user object of every login and refresh response is
\* the stored record with exactly the keys senha and senha_hash removed.
C17_StoredMinusTwoKeys ==
    (resp.op \in {"login", "refresh"} /\ resp.status = 200) =>
        resp.usuario = [k \in DOMAIN StoredFor(resp) \ {"senha", "senha_hash"} |->
                           StoredFor(resp)[k]]

\* C17: no response of login or refresh carries senha or senha_hash; the
\* user object returned is the UsuarioRead view of the stored record: every
\* schema field the record has, with the stored value, the _id as id, and
\* no key that is not part of the schema.
C17_NoPasswordFields ==
    /\ resp.op \in {"login", "refresh"} =>
          /\ resp.usuario # NoDoc <=> resp.status = 200
          /\ resp.usuario # NoDoc =>
                DOMAIN resp.usuario \cap {"senha", "senha_hash"} = {}
    /\ (resp.op \in {"login", "refresh"} /\ resp.status = 200) =>
          LET stored == StoredFor(resp) IN
          /\ stored # NoDoc
          /\ resp.usuario.id = stored._id
          /\ DOMAIN resp.usuario \subseteq UsuarioReadFields \cup {"id"}
          /\ \A k \in DOMAIN stored \cap UsuarioReadFields :
                k \in DOMAIN resp.usuario /\ resp.usuario[k] = stored[k]

\* a user whose record holds both senha and senha_hash has logged in and
\* then refreshed
C17_Witness ==
    /\ resp.op = "refresh" /\ resp.status = 200
    /\ {"senha", "senha_hash"} \subseteq DOMAIN StoredFor(resp)
    /\ session.sub = resp.sub

\* C16: a user whose senha_hash was written from password p (by POST
\* /usuarios, by PUT /usuarios/{id}, or by get_password_hash) logs in with p
\* and is rejected with every other password; after a PUT that changes the
\* password the old one no longer logs in and the new one does.
C16_PasswordRoundTrip ==
    resp.op = "login" =>
        LET user == find_one_by_email(usuarios, resp.email) IN
        (user # NoDoc /\ user._id \in DOMAIN written) =>
            (resp.status = 200 <=> resp.senha = written[user._id])

\* a token that was signed under a secret or an algorithm other than the
\* configured ones
SignedUnderOther(tok) ==
    tok.sig.key # settings.SECRET_KEY \/ tok.alg # settings.ALGORITHM

\* C18: a token issued under secret K1 is rejected by decode_token, and so
\* by get_current_user_id and by refresh, whenever the configured secret is
\* another one or the configured algorithm differs from the signing one;
\* this holds for the tokens of both kinds.
C18_SecretChangeInvalidates ==
    /\ \A tok \in Held :
          SignedUnderOther(tok) =>
              /\ ~decode_token(tok, now, settings).ok
              /\ get_current_user_id(tok, now, settings).status = 401
              /\ refresh_check(tok, now, usuarios, settings).status = 401
    /\ (resp.op \in {"get_current_user_id", "refresh"}
            /\ resp.req \in Held /\ SignedUnderOther(resp.req))
          => /\ resp.status = 401
             /\ resp.access_token = NoToken
             /\ resp.sub = ""

\* after the secret was changed, the major token of the session has been
\* refused by refresh, and the access token of the session is refused too
C18_Witness ==
    /\ resp.op = "refresh"
    /\ resp.req = session.major
    /\ session.major.sig.key # settings.SECRET_KEY
    /\ session.major.alg = settings.ALGORITHM
    /\ resp.status = 401
    /\ session.access # NoToken
    /\ ~decode_token(session.access, now, settings).ok

\* C19: get_current_user_id leaves the user store alone and returns the sub
\* of a valid access token whether or not a user with that id is stored,
\* while refresh answers 401 and mints nothing for a valid major token whose
\* subject is not stored.
C19_GuardIgnoresUserStore ==
    [][ /\ (resp = Idle /\ resp'.op = "get_current_user_id") =>
              /\ usuarios' = usuarios
              /\ (/\ Decodable(resp'.req, now)
                  /\ resp'.req.claims.type = "access"
                  /\ ~Falsy(resp'.req.claims.sub))
                    => /\ resp'.status = 200
                       /\ resp'.sub = resp'.req.claims.sub
        /\ (/\ resp = Idle /\ resp'.op = "refresh"
            /\ Decodable(resp'.req, now)
            /\ resp'.req.claims.type = "major"
            /\ ~Falsy(resp'.req.claims.sub)
            /\ resp'.req.claims.sub \notin DOMAIN usuarios)
              => /\ resp'.status = 401
                 /\ resp'.access_token = NoToken
                 /\ usuarios' = usuarios ]_vars

\* the user of the session was deleted; the guard has still returned the
\* subject of the session's access token, and refresh refuses its major token
C19_Witness ==
    /\ resp.op = "get_current_user_id"
    /\ resp.status = 200
    /\ resp.req = session.access
    /\ resp.sub = session.sub
    /\ resp.sub \notin DOMAIN usuarios
    /\ refresh_check(session.major, now, usuarios, settings).status = 401

\* C20: the child-resolution loop of the bulk upsert makes progress in every
\* round (the rounds run plus the items remaining never exceed the number of
\* children) and never returns ok with an item left in the remaining list.
C20_BulkLoopCompletes ==
    /\ bulk.pc = "loop" =>
          bulk.safety + Len(bulk.remaining) <= Len(SelectSeq(bulk.items, IsChild))
    /\ (bulk.pc = "done" /\ bulk.status = 200) => bulk.remaining = <<>>

----------------------------------------------------------------------------
(* POST /usuarios/{usuario_id}/cursos/{curso_id}/toggle: the handler *)

\* what the toggle handler leaves alone
offToggle == <<now, settings, session, refreshed, cookie, resp, call,
               comunicados, written, departamentos, bulk, dreq,
               companies, bookkeeping>>

\* the ids the clients toggle courses of: a stored user, an ObjectId of no
\* user, a text that is no ObjectId
ToggleIds == {"u1", GhostId, NotAnOid}

\* to_oid or find_one refused the request
ToggleRefuse(c, usuario_id, curso_id, status) ==
    /\ treq' = [treq EXCEPT ![c] =
                   ToggleReq("done", usuario_id, curso_id, NoUpdate, status)]
    /\ UNCHANGED <<usuarios, thist>>

\* update_one writes the $set computed from the user that was read, then the
\* user is read back and returned
ToggleAnswer(c, usuario_id, curso_id, update) ==
    IF usuario_id \in DOMAIN usuarios
    THEN LET old == usuarios[usuario_id]
             doc == set_fields(old, update)
         IN /\ usuarios' = [usuarios EXCEPT ![usuario_id] = doc]
            /\ treq' = [treq EXCEPT ![c] =
                           ToggleReq("done", usuario_id, curso_id, update, 200)]
            /\ thist' = History(IF thist.n < 2 THEN thist.n + 1 ELSE 2,
                                curso_id, Progress(old), Progress(doc),
                                thist.curso1, thist.before1, thist.after1)
    ELSE /\ treq' = [treq EXCEPT ![c] =
                        ToggleReq("done", usuario_id, curso_id, update, 500)]
         /\ UNCHANGED <<usuarios, thist>>

\* the handler up to its find_one: the id is parsed, the user is read and the
\* update is computed from it
ToggleRead(c, usuario_id, curso_id) ==
    /\ treq[c].pc = "idle"
    /\ IF usuario_id \notin ValidObjectIds
       THEN ToggleRefuse(c, usuario_id, curso_id, 400)
       ELSE IF usuario_id \notin DOMAIN usuarios
       THEN ToggleRefuse(c, usuario_id, curso_id, 404)
       ELSE /\ treq' = [treq EXCEPT ![c] =
                           ToggleReq("write", usuario_id, curso_id,
                                     toggle_curso_update(usuarios[usuario_id],
                                                         curso_id, now),
                                     0)]
            /\ UNCHANGED <<usuarios, thist>>
    /\ UNCHANGED offToggle

\* the handler from its update_one on
ToggleWrite(c) ==
    /\ treq[c].pc = "write"
    /\ ToggleAnswer(c, treq[c].usuario_id, treq[c].curso_id, treq[c].update)
    /\ UNCHANGED offToggle

\* the whole handler with no other request in between
ToggleCurso(c, usuario_id, curso_id) ==
    /\ treq[c].pc # "write"
    /\ IF usuario_id \notin ValidObjectIds
       THEN ToggleRefuse(c, usuario_id, curso_id, 400)
       ELSE IF usuario_id \notin DOMAIN usuarios
       THEN ToggleRefuse(c, usuario_id, curso_id, 404)
       ELSE ToggleAnswer(c, usuario_id, curso_id,
                         toggle_curso_update(usuarios[usuario_id], curso_id, now))
    /\ UNCHANGED offToggle

\* PUT /usuarios/{usuario_id} bodies that set pontos
PontosUpdates == { [pontos |-> 5] }

\* toggles handled one after the other, and PUT /usuarios/{usuario_id}
NextCursos ==
    \/ \E usuario_id \in ToggleIds, curso_id \in Cursos :
          ToggleCurso("c1", usuario_id, curso_id)
    \/ \E data \in PontosUpdates : AtualizarUsuario("u1", data)
    \/ Receive /\ UNCHANGED offAuth

SpecCursos == Init /\ [][NextCursos]_vars

\* the ids two clients toggle at once: two stored users besides
ConcurrentIds == ToggleIds \cup {"u2"}

\* one toggle request of each client, their steps interleaved
NextToggles ==
    \/ \E c \in Clients, usuario_id \in ConcurrentIds, curso_id \in Cursos :
          ToggleRead(c, usuario_id, curso_id)
    \/ \E c \in Clients : ToggleWrite(c)

SpecToggles == Init /\ [][NextToggles]_vars

\* the slugs stored in a collection
SlugsOf(db) == {db[id].slug : id \in DOMAIN db}

\* the slugs a batch can resolve: those stored before the call, and those of
\* the items whose normalised parent_slug is empty or resolvable
RECURSIVE ResolvableSlugs(_, _)
ResolvableSlugs(items, known) ==
    LET more == known \cup
                { _norm_slug(items[i].slug) : i \in
                    { j \in 1..Len(items) :
                        \/ PyFalsy(_norm_slug(items[j].parent_slug))
                        \/ _norm_slug(items[j].parent_slug) \in known } }
    IN IF more = known THEN known ELSE ResolvableSlugs(items, more)

\* C21: the bulk upsert succeeds and upserts every item exactly when each
\* item's normalised parent_slug is empty, stored, or the slug of a
\* resolvable item of the batch (a condition that ignores the order of the
\* items).
C21_BulkSucceedsIffResolvable ==
    bulk.pc = "done" =>
        LET resolvable == ResolvableSlugs(bulk.items, SlugsOf(bulk.before)) IN
        (/\ bulk.status = 200
         /\ \A i \in 1..Len(bulk.items) :
               _norm_slug(bulk.items[i].slug) \in SlugsOf(departamentos))
        <=> (\A i \in 1..Len(bulk.items) :
                \/ PyFalsy(_norm_slug(bulk.items[i].parent_slug))
                \/ _norm_slug(bulk.items[i].parent_slug) \in resolvable)

\* C22: after a successful bulk upsert the stored document of every item of
\* the batch has coherent paths: without a parent, path_slugs = [slug] and
\* path = [nome]; with a parent, path_slugs and path are the parent's stored
\* ones at the end of the call followed by the item's own slug and nome.
C22_BulkPathsCoherent ==
    (bulk.pc = "done" /\ bulk.status = 200) =>
        \A i \in 1..Len(bulk.items) :
            LET doc == find_one_by_slug(departamentos, _norm_slug(bulk.items[i].slug)) IN
            doc # NoDoc =>
                IF PyFalsy(doc.parent_slug)
                THEN doc.path_slugs = <<doc.slug>> /\ doc.path = <<doc.nome>>
                ELSE LET parent == find_one_by_slug(departamentos, doc.parent_slug) IN
                     /\ parent # NoDoc
                     /\ doc.path_slugs = Append(parent.path_slugs, doc.slug)
                     /\ doc.path = Append(parent.path, doc.nome)

\* no request of a client or of the bulk upsert is half-way
Quiescent == bulk.pc # "loop" /\ \A c \in Clients : Free(c)

\* no two department documents share a slug
SlugIsKey ==
    \A i, j \in DOMAIN departamentos :
        departamentos[i].slug = departamentos[j].slug => i = j

\* C23: whatever the interleaving of POST, PUT and bulk requests, no two
\* department documents share a slug, and a POST that ends while its
\* normalised slug is stored answers 409 and leaves the collection unchanged
\* (checked for the requests whose parent_slug is empty or stored, the
\* others being refused for their parent before the slug is looked at).
C23_SlugUniqueAnd409 ==
    /\ [] SlugIsKey
    /\ [][\A c \in Clients :
            (/\ dreq'[c] # dreq[c]
             /\ dreq'[c].op = "POST" /\ dreq'[c].pc = "done"
             /\ dreq'[c].slug \in SlugsOf(departamentos)
             /\ dreq'[c].detail # "parent_slug não encontrado.")
            => (dreq'[c].status = 409 /\ departamentos' = departamentos)]_vars

\* following parent_slug from the department `slug` ends, within `fuel`
\* steps, at a department without a parent
RECURSIVE ReachesRoot(_, _, _)
ReachesRoot(db, slug, fuel) ==
    LET doc == find_one_by_slug(db, slug) IN
    IF doc = NoDoc THEN FALSE
    ELSE IF PyFalsy(doc.parent_slug) THEN TRUE
    ELSE fuel > 0 /\ ReachesRoot(db, doc.parent_slug, fuel - 1)

\* C27: between requests, every department with a parent_slug has a stored
\* parent with that slug, whose _id is its parent_id and whose path_slugs
\* followed by its own slug is its path_slugs, and no department is its own
\* ancestor.
C27_HierarchyInvariant ==
    Quiescent =>
        \A id \in DOMAIN departamentos :
            LET doc == departamentos[id] IN
            ~PyFalsy(doc.parent_slug) =>
                LET parent == find_one_by_slug(departamentos, doc.parent_slug) IN
                /\ parent # NoDoc
                /\ doc.parent_id = parent._id
                /\ doc.path_slugs = Append(parent.path_slugs, doc.slug)
                /\ ReachesRoot(departamentos, doc.slug,
                               Cardinality(DOMAIN departamentos))

\* C24: a non-empty password sent through POST /empresas, POST
\* /empresas/bulk or PUT /empresas/{id} is stored as its token under the key
\* of that time and never as itself; GET /empresas/{id}/credentials answers,
\* per password, None for an empty stored value, the password that was sent
\* when it was stored under the current CRED_KEY, and the stored value
\* unchanged when it is not a token of the current key.
C24_CredentialsRoundTrip ==
    /\ \A id \in DOMAIN empresas : \A f \in SenhaFields :
          LET sent == ewritten[id][f]
              stored == doc_get(empresas[id], f)
          IN (sent # Null /\ Truthy(sent.v)) =>
                /\ stored = FernetToken(sent.key, sent.v)
                /\ stored # sent.v
                /\ dec(stored, sent.key) = sent.v
    /\ (eresp.op = "credentials" /\ eresp.status = 200) =>
          \A f \in SenhaFields :
              LET sent == ewritten[eresp.id][f]
                  stored == doc_get(empresas[eresp.id], f)
              IN /\ ~Truthy(stored) => eresp.body[f] = Null
                 /\ (sent # Null /\ Truthy(sent.v) /\ sent.key = cred_key)
                       => eresp.body[f] = sent.v
                 /\ (Truthy(stored) /\ ~IsToken(stored, cred_key))
                       => eresp.body[f] = stored

\* the credentials of a company are read back under the key they were
\* stored with: one password decrypted, after a password was stored as a
\* token
C24_Witness ==
    /\ eresp.op = "credentials" /\ eresp.status = 200
    /\ eresp.id \in DOMAIN empresas
    /\ ewritten[eresp.id].senha_muni # Null
    /\ ewritten[eresp.id].senha_muni.key = cred_key
    /\ eresp.body.senha_muni = Text("s1")
    /\ IsToken(empresas[eresp.id].senha_muni, cred_key)

\* the positions of the payload filed under a list of the answer
Indexes(detail) == {detail[k].index + 1 : k \in 1..Len(detail)}

C25_BulkInsertedIsAdded ==
    (esresult.called /\ esresult.skip_duplicates) =>
        LET submitted == {esresult.items[i].cnpj : i \in 1..Len(esresult.items)}
            before == StoredCnpjs(esresult.before)
        IN
        /\ submitted \subseteq StoredCnpjs(escrituracao)
        /\ \A id \in DOMAIN esresult.before : escrituracao[id] = esresult.before[id]
        /\ esresult.result.skipped = submitted \cap before
        /\ esresult.result.inserted =
              Cardinality(DOMAIN escrituracao) - Cardinality(DOMAIN esresult.before)

\* C26: a POST /usuarios with a stored e-mail answers 409 and inserts
\* neither a user nor a comunicado; any other answers 201 and inserts exactly
\* one user, which it returns, together with exactly one new_hire comunicado
\* whose target_user_id is the new _id, except when the insert of the
\* comunicado fails: then the failure is printed, no comunicado is inserted,
\* and the user is stored and returned all the same.
C26_UserCreatedWhateverTheComunicado ==
    [][(resp = Idle /\ resp'.op = "criar_usuario") =>
         IF find_one_by_email(usuarios, resp'.email) # NoDoc
         THEN /\ resp'.status = 409
              /\ usuarios' = usuarios
              /\ comunicados' = comunicados
         ELSE /\ resp'.status = 201
              /\ \E id \in DOMAIN usuarios' \ DOMAIN usuarios :
                    /\ DOMAIN usuarios' = DOMAIN usuarios \cup {id}
                    /\ \A old \in DOMAIN usuarios : usuarios'[old] = usuarios[old]
                    /\ usuarios'[id].email = resp'.email
                    /\ resp'.sub = id
                    /\ resp'.usuario = UsuarioRead(without_senha(usuarios'[id]))
                    /\ IF resp'.printed = ""
                       THEN \E c \in comunicados' \ comunicados :
                               /\ comunicados' = comunicados \cup {c}
                               /\ c.tipo = "new_hire"
                               /\ c.target_user_id = id
                       ELSE comunicados' = comunicados]_vars

\* a user was created although its comunicado could not be inserted
C26_Witness ==
    /\ resp.op = "criar_usuario" /\ resp.status = 201
    /\ resp.printed # ""
    /\ resp.sub \in DOMAIN usuarios
    /\ \A c \in comunicados : c.target_user_id # resp.sub

\* the last toggle written was made on the progress the one before it left
Consecutive == thist.n = 2 /\ thist.before1 = thist.after2

\* C28 as stated: after a toggle pontos is 10 times the concluded courses, a
\* course not listed before is added as concluido, and two consecutive
\* toggles of one course restore its flag and the user's pontos
C28_ToggleCountsAndRestores ==
    thist.n >= 1 =>
        /\ thist.after1.pontos =
               POINTS_PER_COURSE * concluidos(thist.after1.cursos_progresso)
        /\ index_of(thist.before1.cursos_progresso, thist.curso1) = 0
               => concluido_in(thist.after1, thist.curso1)
        /\ (Consecutive /\ thist.curso1 = thist.curso2) =>
               /\ concluido_in(thist.after1, thist.curso1)
                      = concluido_in(thist.before2, thist.curso1)
               /\ thist.after1.pontos = thist.before2.pontos

\* C28 amended: the two toggles restore pontos when it was 10 times the
\* concluded courses before them, and leave it at that product otherwise
C28_ToggleCountsAndRestoresCounted ==
    thist.n >= 1 =>
        /\ thist.after1.pontos =
               POINTS_PER_COURSE * concluidos(thist.after1.cursos_progresso)
        /\ index_of(thist.before1.cursos_progresso, thist.curso1) = 0
               => concluido_in(thist.after1, thist.curso1)
        /\ (Consecutive /\ thist.curso1 = thist.curso2) =>
               /\ concluido_in(thist.after1, thist.curso1)
                      = concluido_in(thist.before2, thist.curso1)
               /\ concluidos(thist.after1.cursos_progresso)
                      = concluidos(thist.before2.cursos_progresso)
               /\ thist.before2.pontos =
                      POINTS_PER_COURSE * concluidos(thist.before2.cursos_progresso)
                  => thist.after1.pontos = thist.before2.pontos

\* two consecutive toggles of one course were written on a user whose pontos
\* was the product before them, the first adding the course
C28_Witness ==
    /\ Consecutive
    /\ thist.curso1 = thist.curso2
    /\ index_of(thist.before2.cursos_progresso, thist.curso2) = 0
    /\ thist.before2.pontos =
           POINTS_PER_COURSE * concluidos(thist.before2.cursos_progresso)
    /\ thist.before2.pontos > 0

\* C29 as stated: when two requests of one user on two different courses
\* are both answered, the stored progress reflects both toggles and pontos
\* counts both
C29_TogglesBothReflected ==
    \A c \in Clients, d \in Clients :
        ( /\ treq[c].pc = "done" /\ treq[c].status = 200
          /\ treq[d].pc = "done" /\ treq[d].status = 200
          /\ treq[c].usuario_id = treq[d].usuario_id
          /\ treq[c].curso_id # treq[d].curso_id )
        => LET seed == Progress(SeedUsuarios[treq[c].usuario_id])
               stored == Progress(usuarios[treq[c].usuario_id])
           IN /\ concluido_in(stored, treq[c].curso_id)
                     = ~concluido_in(seed, treq[c].curso_id)
              /\ concluido_in(stored, treq[d].curso_id)
                     = ~concluido_in(seed, treq[d].curso_id)
              /\ stored.pontos = POINTS_PER_COURSE * 2

====
